---- MODULE Spec2Model ----
(***************************************************************************)
(* A model of App/services/LLm_service.py: the response cache, the mention *)
(* extraction, the context compaction (_summarize_context_data and the     *)
(* per-category summarizers and prioritizers it calls) and the budget      *)
(* enforcement of LLMService.generate_response.                            *)
(*                                                                         *)
(* JSON-like Python values are records tagged by t:                        *)
(*   null, int (n), str (s, pad), list (v), dict (kv, insertion ordered).  *)
(* A str is the characters of s followed by pad further characters that    *)
(* the code never inspects (only their number shows, in len(json.dumps)).  *)
(* A Python exception travelling up the call stack is the value Raise(m).  *)
(***************************************************************************)
EXTENDS Integers, Sequences, FiniteSets, TLC

\* ------------------------------------------------------------------------
\* Python values
\* ------------------------------------------------------------------------
Null == [t |-> "null"]
JInt(n) == [t |-> "int", n |-> n]
JStr(s) == [t |-> "str", s |-> s, pad |-> 0]
JPad(n) == [t |-> "str", s |-> "", pad |-> n]
JList(v) == [t |-> "list", v |-> v]
JDict(kv) == [t |-> "dict", kv |-> kv]
KV(k, v) == [k |-> k, v |-> v]
Raise(m) == [t |-> "raise", msg |-> m]
IsRaise(x) == x.t = "raise"
IsDict(x) == x.t = "dict"
IsList(x) == x.t = "list"
IsStr(x) == x.t = "str"

\* bool(x)
Truthy(x) ==
  CASE x.t = "null" -> FALSE
    [] x.t = "int" -> x.n # 0
    [] x.t = "str" -> Len(x.s) + x.pad > 0
    [] x.t = "list" -> Len(x.v) > 0
    [] x.t = "dict" -> Len(x.kv) > 0

HasKey(d, k) == \E i \in 1..Len(d.kv) : d.kv[i].k = k
KeyIndex(d, k) == CHOOSE i \in 1..Len(d.kv) : d.kv[i].k = k
\* d[k] for a dict d that holds k
Item(d, k) == d.kv[KeyIndex(d, k)].v
\* d[k] = v: an existing key keeps its position, a new key is appended
SetItem(d, k, v) ==
  IF HasKey(d, k)
    THEN JDict([i \in 1..Len(d.kv) |-> IF d.kv[i].k = k THEN KV(k, v) ELSE d.kv[i]])
    ELSE JDict(Append(d.kv, KV(k, v)))
\* type(x).__name__ and the text of the AttributeError of x.attr
TypeName(x) ==
  CASE x.t = "null" -> "NoneType"
    [] x.t = "int" -> "int"
    [] x.t = "str" -> "str"
    [] x.t = "list" -> "list"
    [] x.t = "dict" -> "dict"
NoAttribute(x, attr) ==
  Raise("'" \o TypeName(x) \o "' object has no attribute '" \o attr \o "'")
\* x.get(k, dflt): only a dict has .get
Get(x, k, dflt) ==
  IF IsDict(x)
    THEN (IF HasKey(x, k) THEN Item(x, k) ELSE dflt)
    ELSE NoAttribute(x, "get")

\* a in b for two Python str
RECURSIVE IsSubstringFrom(_, _, _)
IsSubstringFrom(a, b, i) ==
  IF i + Len(a) - 1 > Len(b) THEN FALSE
  ELSE IF SubSeq(b, i, i + Len(a) - 1) = a THEN TRUE
  ELSE IsSubstringFrom(a, b, i + 1)
IsSubstring(a, b) == IsSubstringFrom(a, b, 1)

\* (k in x) for a str k and a container x; on any other x the test raises
\* NotIterable(x)
IsContainer(x) == x.t \in {"dict", "list", "str"}
NotIterable(x) == Raise("argument of type '" \o TypeName(x) \o "' is not iterable")
In(k, x) ==
  CASE x.t = "dict" -> HasKey(x, k)
    [] x.t = "list" -> \E i \in 1..Len(x.v) : x.v[i] = JStr(k)
    [] x.t = "str" -> IsSubstring(k, x.s)
    [] OTHER -> FALSE

\* ------------------------------------------------------------------------
\* str.lower() and str.split()
\* ------------------------------------------------------------------------
UpperCase == "ABCDEFGHIJKLMNOPQRSTUVWXYZ"
LowerCase == "abcdefghijklmnopqrstuvwxyz"
CharAt(s, i) == SubSeq(s, i, i)
IsUpper(c) == \E i \in 1..26 : CharAt(UpperCase, i) = c
IsLower(c) == \E i \in 1..26 : CharAt(LowerCase, i) = c
LowerChar(c) ==
  IF IsUpper(c) THEN CharAt(LowerCase, CHOOSE i \in 1..26 : CharAt(UpperCase, i) = c)
  ELSE c
RECURSIVE Lower(_)
Lower(s) == IF s = "" THEN "" ELSE LowerChar(CharAt(s, 1)) \o Lower(SubSeq(s, 2, Len(s)))

\* s.split(): the maximal runs of non-space characters, in order
RECURSIVE SplitFrom(_, _, _)
SplitFrom(s, i, cur) ==
  IF i > Len(s) THEN (IF cur = "" THEN <<>> ELSE <<cur>>)
  ELSE IF CharAt(s, i) = " "
    THEN (IF cur = "" THEN <<>> ELSE <<cur>>) \o SplitFrom(s, i + 1, "")
    ELSE SplitFrom(s, i + 1, cur \o CharAt(s, i))
Split(s) == SplitFrom(s, 1, "")

\* ------------------------------------------------------------------------
\* len(json.dumps(x, indent=2))
\* ------------------------------------------------------------------------
RECURSIVE Digits(_)
Digits(n) == IF n < 0 THEN 1 + Digits(-n) ELSE IF n < 10 THEN 1 ELSE 1 + Digits(n \div 10)

RECURSIVE JsonLenAt(_, _)
RECURSIVE SumItemLens(_, _, _)
\* the items of a container at nesting depth d: each on its own line,
\* indented by 2*(d+1), dict items prefixed by "key":<space>
SumItemLens(x, d, i) ==
  IF i = 0 THEN 0
  ELSE SumItemLens(x, d, i - 1) + 1 + 2 * (d + 1) +
       (IF IsDict(x) THEN Len(x.kv[i].k) + 4 + JsonLenAt(x.kv[i].v, d + 1)
                     ELSE JsonLenAt(x.v[i], d + 1))
JsonLenAt(x, d) ==
  CASE x.t = "null" -> 4
    [] x.t = "int" -> Digits(x.n)
    [] x.t = "str" -> Len(x.s) + x.pad + 2
    [] x.t = "list" ->
         IF Len(x.v) = 0 THEN 2
         ELSE 1 + SumItemLens(x, d, Len(x.v)) + (Len(x.v) - 1) + 1 + 2 * d + 1
    [] x.t = "dict" ->
         IF Len(x.kv) = 0 THEN 2
         ELSE 1 + SumItemLens(x, d, Len(x.kv)) + (Len(x.kv) - 1) + 1 + 2 * d + 1
JsonLen(x) == JsonLenAt(x, 0)

\* ------------------------------------------------------------------------
\* Loops and slices
\* ------------------------------------------------------------------------
Skip == [t |-> "skip"]
Min(a, b) == IF a < b THEN a ELSE b
Max(a, b) == IF a > b THEN a ELSE b
\* s[:k], k of either sign
SliceTo(s, k) ==
  IF k >= 0 THEN SubSeq(s, 1, Min(k, Len(s)))
  ELSE SubSeq(s, 1, Max(Len(s) + k, 0))
\* s[a:b] for 0 <= a <= b
Slice(s, a, b) == SubSeq(s, a + 1, Min(b, Len(s)))
\* the outcome of a loop whose i-th iteration yields rs[i]: the first
\* exception if one is raised, else the appended items (Skip appends none)
AnyRaise(rs) == \E i \in 1..Len(rs) : IsRaise(rs[i])
FirstRaise(rs) ==
  rs[CHOOSE i \in 1..Len(rs) : IsRaise(rs[i]) /\ \A j \in 1..(i - 1) : ~IsRaise(rs[j])]
Kept(rs) == SelectSeq(rs, LAMBDA r : r.t # "skip")
Collect(rs) == IF AnyRaise(rs) THEN FirstRaise(rs) ELSE JList(Kept(rs))

\* ------------------------------------------------------------------------
\* _summarize_fantasy_rankings and _process_large_player_list_chunked
\* ------------------------------------------------------------------------
PositionKeys == <<"QB", "RB", "WR", "TE", "K", "DEF">>
IsPositionKeyed(d) == \E i \in 1..Len(PositionKeys) : HasKey(d, PositionKeys[i])

RankingsFillerLen == 255
FlatChunkThreshold == 200
FlatChunkSize == 150
QBCap == 25
PositionCap == 15

\* the projection of one record of a flat rankings list
RankedPlayerSummary(player) ==
  LET base == JDict(<<
        KV("id", Get(player, "player_id", JStr(""))),
        KV("name", Get(player, "display_name", Get(player, "name", JStr("")))),
        KV("team", Get(player, "team", JStr(""))),
        KV("position", Get(player, "position", JStr(""))),
        KV("rank", Get(player, "rank", Get(player, "position_rank", JInt(0)))),
        KV("bye_week", Get(player, "bye_week", JStr("")))>>)
      s1 == IF HasKey(player, "standard_points")
              THEN SetItem(base, "projected_points", JDict(<<
                     KV("standard", Get(player, "standard_points", JInt(0))),
                     KV("ppr", Get(player, "ppr_points", JInt(0))),
                     KV("half_ppr", Get(player, "half_ppr_points", JInt(0)))>>))
              ELSE base
      s2 == IF HasKey(player, "proj_pts")
              THEN SetItem(s1, "projected_points", Get(player, "proj_pts", JInt(0)))
              ELSE s1
      s3 == IF HasKey(player, "adp") THEN SetItem(s2, "adp", Get(player, "adp", JInt(0))) ELSE s2
  IN IF HasKey(player, "injury_risk")
       THEN SetItem(s3, "injury_risk", Get(player, "injury_risk", JStr("")))
       ELSE s3

\* the loop over one list (or one chunk): non-mapping elements are skipped
SummarizeRankedList(players) ==
  Kept([i \in 1..Len(players) |->
         IF IsDict(players[i]) THEN RankedPlayerSummary(players[i]) ELSE Skip])

RECURSIVE ChunkedFrom(_, _)
ChunkedFrom(players, i) ==
  IF i >= Len(players) THEN <<>>
  ELSE SummarizeRankedList(Slice(players, i, Min(i + FlatChunkSize, Len(players))))
         \o ChunkedFrom(players, i + FlatChunkSize)
\* nothing in the chunk loop can raise on JSON data, so the except branch
\* (re-summarize the first 200) is never taken
ProcessLargePlayerListChunked(players_list) == JList(ChunkedFrom(players_list, 0))

\* one position of a position-keyed mapping
PositionPlayerSummary(player) ==
  IF IsDict(player)
    THEN LET base == JDict(<<
               KV("name", Get(player, "display_name", Get(player, "name", JStr("")))),
               KV("team", Get(player, "team", JStr(""))),
               KV("rank", Get(player, "rank", Get(player, "position_rank", JInt(0))))>>)
         IN IF HasKey(player, "proj_pts")
              THEN SetItem(base, "projected_points", Get(player, "proj_pts", JInt(0)))
              ELSE base
    ELSE JDict(<<KV("error", JStr("Unexpected player data format"))>>)

RECURSIVE SummarizePositions(_, _, _)
SummarizePositions(d, i, acc) ==
  IF i > Len(d.kv) THEN acc
  ELSE LET position == d.kv[i].k
           players == d.kv[i].v
           max_players == IF position = "QB" THEN QBCap ELSE PositionCap
       IN IF IsList(players) /\ Truthy(players)
            THEN SummarizePositions(d, i + 1, SetItem(acc, position,
                   JList([j \in 1..Min(max_players, Len(players.v)) |->
                           PositionPlayerSummary(players.v[j])])))
            ELSE SummarizePositions(d, i + 1, acc)

\* the local variable summarized of Case 1 when the function ends
PositionKeyedSummary(rankings_data) == SummarizePositions(rankings_data, 1, JDict(<<>>))

\* {k: v for k, v in d.items() if k not in skip and v is not one of types}
ScalarItems(d, skipKeys, skipTypes) ==
  JDict(SelectSeq(d.kv, LAMBDA e : e.k \notin skipKeys /\ e.v.t \notin skipTypes))

\* index of the first value that is a non-empty list starting with a mapping
HasPlayerListField(d) ==
  \E i \in 1..Len(d.kv) :
    IsList(d.kv[i].v) /\ Truthy(d.kv[i].v) /\ IsDict(d.kv[i].v.v[1])
FirstPlayerListField(d) ==
  CHOOSE i \in 1..Len(d.kv) :
    /\ IsList(d.kv[i].v) /\ Truthy(d.kv[i].v) /\ IsDict(d.kv[i].v.v[1])
    /\ \A j \in 1..(i - 1) :
         ~(IsList(d.kv[j].v) /\ Truthy(d.kv[j].v) /\ IsDict(d.kv[j].v.v[1]))
TieredSample(value) ==
  IF Len(value) > 30
    THEN Slice(value, 0, 15)
           \o (IF Len(value) > 60 THEN Slice(value, 50, 60) ELSE <<>>)
           \o (IF Len(value) > 155 THEN Slice(value, 150, 155) ELSE <<>>)
    ELSE Slice(value, 0, 30)

RECURSIVE SummarizeFantasyRankings(_)
SummarizeFantasyRankings(rankings_data) ==
  IF ~Truthy(rankings_data) THEN JDict(<<KV("summary", JPad(RankingsFillerLen))>>)
  ELSE IF IsList(rankings_data) THEN
    IF Len(rankings_data.v) > FlatChunkThreshold
      THEN ProcessLargePlayerListChunked(rankings_data.v)
      ELSE JList(SummarizeRankedList(rankings_data.v))
  ELSE IF IsDict(rankings_data) THEN
    IF IsPositionKeyed(rankings_data) THEN
      \* Case 1 fills summarized (PositionKeyedSummary) and then runs off
      \* the end of the function without a return: the caller receives None
      Null
    ELSE IF HasKey(rankings_data, "data") /\ Item(rankings_data, "data").t \in {"list", "dict"} THEN
      SummarizeFantasyRankings(Item(rankings_data, "data"))
    ELSE
      LET summarized == JDict(<<
            KV("metadata", ScalarItems(rankings_data, {"players", "data"}, {"list", "dict"})),
            KV("players_sample", JList(<<>>))>>)
      IN IF HasKey(rankings_data, "players") /\ IsList(Item(rankings_data, "players"))
           THEN SetItem(summarized, "players_sample",
                        SummarizeFantasyRankings(Item(rankings_data, "players")))
         ELSE IF HasPlayerListField(rankings_data)
           THEN SetItem(summarized, "players_sample",
                  SummarizeFantasyRankings(JList(TieredSample(
                    rankings_data.kv[FirstPlayerListField(rankings_data)].v.v))))
         ELSE summarized
  ELSE JDict(<<KV("summary", JStr("Rankings data available but in unexpected format"))>>)

\* ------------------------------------------------------------------------
\* _summarize_ros_projections, _process_large_player_list_chunked_ros,
\* _process_ros_fallback
\* ------------------------------------------------------------------------
RosFillerLen == 328
RosChunkThreshold == 50
RosChunkSize == 100
RosFallbackPrefix == 50
RosDirectStats == <<"passing_yards", "passing_touchdowns", "rushing_yards",
                    "rushing_touchdowns", "receiving_yards", "receiving_touchdowns">>
RosChunkedStats == RosDirectStats \o <<"receptions", "fumbles", "interceptions">>

\* for stat in stats: if stat in player: player_summary[stat] = player.get(stat, 0)
RECURSIVE CopyStats(_, _, _, _)
CopyStats(player, stats, i, acc) ==
  IF i > Len(stats) THEN acc
  ELSE CopyStats(player, stats, i + 1,
         IF HasKey(player, stats[i])
           THEN SetItem(acc, stats[i], Get(player, stats[i], JInt(0)))
           ELSE acc)

RosPlayerSummary(player, position, stats) ==
  LET base == JDict(<<
        KV("name", Get(player, "name", JStr(""))),
        KV("team", Get(player, "team", JStr(""))),
        KV("position", Get(player, "position", JStr(position)))>>)
      s1 == IF HasKey(player, "proj_pts")
              THEN SetItem(base, "projected_points", Get(player, "proj_pts", JInt(0)))
              ELSE base
  IN CopyStats(player, stats, 1, s1)

\* x.lower() for an arbitrary value: only a str has .lower
LowerOf(x) == IF IsStr(x) THEN JStr(Lower(x.s)) ELSE NoAttribute(x, "lower")

\* one iteration of the chunk loop: the debug test
\* "gordon" in player.get("name", "").lower() raises when name is not a str
RosChunkedItem(player, position) ==
  IF ~IsDict(player) THEN Skip
  ELSE IF IsRaise(LowerOf(Get(player, "name", JStr("")))) THEN LowerOf(Get(player, "name", JStr("")))
  ELSE RosPlayerSummary(player, position, RosChunkedStats)

RECURSIVE RosChunkedFrom(_, _, _)
RosChunkedFrom(players, position, i) ==
  IF i >= Len(players) THEN <<>>
  ELSE LET chunk == Slice(players, i, Min(i + RosChunkSize, Len(players)))
       IN [j \in 1..Len(chunk) |-> RosChunkedItem(chunk[j], position)]
            \o RosChunkedFrom(players, position, i + RosChunkSize)

ProcessRosFallback(players_list, position) ==
  JList(Kept([i \in 1..Len(players_list) |->
    IF IsDict(players_list[i])
      THEN JDict(<<
             KV("name", Get(players_list[i], "name", JStr(""))),
             KV("team", Get(players_list[i], "team", JStr(""))),
             KV("position", Get(players_list[i], "position", JStr(position))),
             KV("projected_points", Get(players_list[i], "proj_pts", JInt(0)))>>)
      ELSE Skip]))

\* an exception anywhere in the chunk loop discards every chunk's output
\* and re-summarizes the first 50 records
ProcessLargePlayerListChunkedRos(players_list, position) ==
  LET rs == RosChunkedFrom(players_list, position, 0)
  IN IF AnyRaise(rs)
       THEN ProcessRosFallback(Slice(players_list, 0, RosFallbackPrefix), position)
       ELSE JList(Kept(rs))

RECURSIVE SummarizeRosPositions(_, _, _)
SummarizeRosPositions(projections, i, acc) ==
  IF i > Len(projections.kv) THEN acc
  ELSE LET position == projections.kv[i].k
           players == projections.kv[i].v
       IN IF IsList(players) /\ Truthy(players)
            THEN SummarizeRosPositions(projections, i + 1, SetItem(acc, position,
                   IF Len(players.v) > RosChunkThreshold
                     THEN ProcessLargePlayerListChunkedRos(players.v, position)
                     ELSE JList(Kept([j \in 1..Len(players.v) |->
                            IF IsDict(players.v[j])
                              THEN RosPlayerSummary(players.v[j], position, RosDirectStats)
                              ELSE Skip]))))
            ELSE SummarizeRosPositions(projections, i + 1, acc)

RosError(e) ==
  JDict(<<KV("summary", JStr("ROS projections data available but could not be summarized")),
          KV("error", JStr(e.msg))>>)

SummarizeRosProjections(ros_data) ==
  IF ~Truthy(ros_data) THEN JDict(<<KV("summary", JPad(RosFillerLen))>>)
  ELSE IF IsList(ros_data) THEN SummarizeFantasyRankings(ros_data)
  ELSE IF ~IsDict(ros_data) THEN RosError(NoAttribute(ros_data, "get"))
  ELSE
    LET summarized == JDict(<<
          KV("season", Get(ros_data, "season", JStr(""))),
          KV("metadata", ScalarItems(ros_data, {"projections", "season"}, {"dict"}))>>)
    IN IF HasKey(ros_data, "projections") /\ IsDict(Item(ros_data, "projections"))
         THEN SummarizeRosPositions(Item(ros_data, "projections"), 1, summarized)
         ELSE SummarizeFantasyRankings(ros_data)

\* ------------------------------------------------------------------------
\* _summarize_draft_projections,
\* _process_large_player_list_chunked_draft_projections
\* ------------------------------------------------------------------------
DraftChunkThreshold == 30
DraftChunkSize == 75

\* {name: player.get(field, "") for the listed (name, field) pairs}
FieldsOf(player, pairs) ==
  JDict([i \in 1..Len(pairs) |-> KV(pairs[i][1], Get(player, pairs[i][2], JStr("")))])
Same(names) == [i \in 1..Len(names) |-> <<names[i], names[i]>>]

DraftBase(player, position, rank) ==
  JDict(<<
    KV("rank", JInt(rank)),
    KV("name", Get(player, "name", JStr(""))),
    KV("team", Get(player, "team", JStr(""))),
    KV("position", Get(player, "position", JStr(position))),
    KV("player_id", Get(player, "playerId", JStr("")))>>)

\* the K branch of _summarize_draft_projections
DraftKickerSummary(player, position, rank) ==
  SetItem(DraftBase(player, position, rank), "projections", FieldsOf(player, <<
    <<"field_goals", "field_goals_made">>,
    <<"extra_points", "extra_points_made">>,
    <<"field_goal_attempts", "field_goals_attempted">>,
    <<"extra_point_attempts", "extra_points_attempted">>>>))

\* the direct branch (at most 30 records of a position other than K)
DraftDirectSummary(player, position, rank) ==
  IF position = "QB"
    THEN SetItem(DraftBase(player, position, rank), "projections", FieldsOf(player,
           Same(<<"passing_yards", "passing_touchdowns", "rushing_yards", "rushing_touchdowns">>)))
  ELSE IF position \in {"RB", "WR", "TE"}
    THEN SetItem(DraftBase(player, position, rank), "projections", FieldsOf(player,
           Same(<<"rushing_yards", "rushing_touchdowns", "receiving_yards",
                  "receiving_touchdowns", "receptions">>)))
  ELSE DraftBase(player, position, rank)

\* one record of the chunked loop
DraftChunkedSummary(player, position, rank) ==
  IF position = "QB"
    THEN SetItem(DraftBase(player, position, rank), "projections", FieldsOf(player,
           Same(<<"passing_yards", "passing_touchdowns", "rushing_yards",
                  "rushing_touchdowns", "interceptions", "fumbles">>)))
  ELSE IF position \in {"RB", "WR", "TE"}
    THEN SetItem(DraftBase(player, position, rank), "projections", FieldsOf(player,
           Same(<<"rushing_yards", "rushing_touchdowns", "receiving_yards",
                  "receiving_touchdowns", "receptions", "fumbles">>)))
  ELSE IF position = "K"
    THEN SetItem(DraftBase(player, position, rank), "projections", FieldsOf(player,
           Same(<<"field_goals", "extra_points", "field_goal_attempts">>)))
  ELSE IF position = "DEF"
    THEN SetItem(DraftBase(player, position, rank), "projections", FieldsOf(player,
           Same(<<"sacks", "interceptions", "fumble_recoveries", "defensive_touchdowns">>)))
  ELSE DraftBase(player, position, rank)

RECURSIVE DraftChunkedFrom(_, _, _)
DraftChunkedFrom(players, position, i) ==
  IF i >= Len(players) THEN <<>>
  ELSE LET chunk == Slice(players, i, Min(i + DraftChunkSize, Len(players)))
       IN Kept([j \in 1..Len(chunk) |->
                 IF IsDict(chunk[j]) THEN DraftChunkedSummary(chunk[j], position, i + j)
                 ELSE Skip])
            \o DraftChunkedFrom(players, position, i + DraftChunkSize)
\* nothing in the chunk loop can raise on JSON data, so the except branch
\* (_process_draft_projections_fallback on the first 30) is never taken
ProcessLargePlayerListChunkedDraftProjections(players_list, position) ==
  JList(DraftChunkedFrom(players_list, position, 0))

DraftPositionData(players, position) ==
  IF position = "K"
    THEN JList(Kept([j \in 1..Len(players) |->
           IF IsDict(players[j]) THEN DraftKickerSummary(players[j], position, j) ELSE Skip]))
  ELSE IF Len(players) > DraftChunkThreshold
    THEN ProcessLargePlayerListChunkedDraftProjections(players, position)
  ELSE JList(Kept([j \in 1..Len(players) |->
           IF IsDict(players[j]) THEN DraftDirectSummary(players[j], position, j) ELSE Skip]))

RECURSIVE SummarizeDraftPositions(_, _, _)
SummarizeDraftPositions(projections, i, acc) ==
  IF i > Len(projections.kv) THEN acc
  ELSE LET position == projections.kv[i].k
           players == projections.kv[i].v
       IN IF IsList(players) /\ Truthy(players)
            THEN SummarizeDraftPositions(projections, i + 1, SetItem(acc, position, JDict(<<
                   KV("count", JInt(Len(players.v))),
                   KV("all_players", DraftPositionData(players.v, position))>>)))
            ELSE SummarizeDraftPositions(projections, i + 1, acc)

DraftError(e) ==
  JDict(<<KV("summary", JStr("Draft projections data available but could not be summarized")),
          KV("error", JStr(e.msg))>>)

SummarizeDraftProjections(projections_data) ==
  IF ~Truthy(projections_data)
    THEN JDict(<<KV("summary", JStr("No draft projections data available"))>>)
  ELSE IF ~IsContainer(projections_data)
    THEN DraftError(NotIterable(projections_data))
  ELSE IF In("projections", projections_data) THEN
    \* a list or str that holds "projections" is then indexed by a str
    IF ~IsDict(projections_data)
      THEN DraftError(Raise(IF IsList(projections_data)
                              THEN "list indices must be integers or slices, not str"
                              ELSE "string indices must be integers, not 'str'"))
    ELSE IF ~IsDict(Item(projections_data, "projections"))
      THEN DraftError(NoAttribute(Item(projections_data, "projections"), "items"))
    ELSE JDict(<<
           KV("season", Get(projections_data, "season", JStr("Unknown"))),
           KV("positions", SummarizeDraftPositions(Item(projections_data, "projections"),
                                                   1, JDict(<<>>)))>>)
  ELSE SummarizeFantasyRankings(projections_data)

\* ------------------------------------------------------------------------
\* _summarize_standings_data
\* ------------------------------------------------------------------------
StandingsFillerLen == 302
NotIterableObject(x) == Raise("'" \o TypeName(x) \o "' object is not iterable")
\* the sequence a for loop over x visits: the elements of a list, the keys
\* of a dict, the characters of a str
Iter(x) ==
  CASE x.t = "list" -> x
    [] x.t = "dict" -> JList([i \in 1..Len(x.kv) |-> JStr(x.kv[i].k)])
    [] x.t = "str" -> JList([i \in 1..(Len(x.s) + x.pad) |->
                               IF i <= Len(x.s) THEN JStr(CharAt(x.s, i)) ELSE JPad(1)])
    [] OTHER -> NotIterableObject(x)

StandingsTeam(team) ==
  IF ~IsDict(team) THEN NoAttribute(team, "get")
  ELSE JDict(<<
    KV("name", Get(team, "name", JStr(""))),
    KV("alias", Get(team, "alias", JStr(""))),
    KV("wins", Get(team, "wins", JInt(0))),
    KV("losses", Get(team, "losses", JInt(0))),
    KV("ties", Get(team, "ties", JInt(0))),
    KV("win_pct", Get(team, "win_pct", JInt(0))),
    KV("points_for", Get(team, "points_for", JInt(0))),
    KV("points_against", Get(team, "points_against", JInt(0)))>>)

StandingsDivision(division) ==
  IF ~IsDict(division) THEN NoAttribute(division, "get")
  ELSE LET teams == Iter(Get(division, "teams", JList(<<>>)))
       IN IF IsRaise(teams) THEN teams
          ELSE LET ts == Collect([i \in 1..Len(teams.v) |-> StandingsTeam(teams.v[i])])
               IN IF IsRaise(ts) THEN ts
                  ELSE JDict(<<KV("name", Get(division, "name", JStr(""))),
                               KV("alias", Get(division, "alias", JStr(""))),
                               KV("teams", ts)>>)

StandingsConference(conference) ==
  IF ~IsDict(conference) THEN NoAttribute(conference, "get")
  ELSE LET divisions == Iter(Get(conference, "divisions", JList(<<>>)))
       IN IF IsRaise(divisions) THEN divisions
          ELSE LET ds == Collect([i \in 1..Len(divisions.v) |-> StandingsDivision(divisions.v[i])])
               IN IF IsRaise(ds) THEN ds
                  ELSE JDict(<<KV("name", Get(conference, "name", JStr(""))),
                               KV("alias", Get(conference, "alias", JStr(""))),
                               KV("divisions", ds)>>)

\* the first statement after the emptiness test reads
\* standings_data.get("season", {}).get("year", "") outside the try block:
\* its AttributeError leaves the function
SummarizeStandingsData(standings_data) ==
  IF ~Truthy(standings_data) THEN JDict(<<>>)
  ELSE IF ~IsDict(standings_data) THEN NoAttribute(standings_data, "get")
  ELSE IF ~IsDict(Get(standings_data, "season", JDict(<<>>)))
    THEN NoAttribute(Get(standings_data, "season", JDict(<<>>)), "get")
  ELSE
    LET season == Get(Get(standings_data, "season", JDict(<<>>)), "year", JStr(""))
        confs == IF HasKey(standings_data, "conferences")
                   THEN Iter(Item(standings_data, "conferences"))
                   ELSE JList(<<>>)
        cs == IF IsRaise(confs) THEN confs
              ELSE Collect([i \in 1..Len(confs.v) |-> StandingsConference(confs.v[i])])
    IN IF IsRaise(cs) THEN JDict(<<KV("summary", JPad(StandingsFillerLen))>>)
       ELSE JDict(<<KV("season", season), KV("conferences", cs)>>)

\* modified[key] = f(rankings_data[key]), or the exception f raises
SetOrRaise(d, k, r) == IF IsRaise(r) THEN r ELSE SetItem(d, k, r)

\* ------------------------------------------------------------------------
\* _summarize_injury_data: the whole body is inside try, and the except
\* branch returns a filler text that holds nothing of the exception
\* ------------------------------------------------------------------------
InjuryFillerLen == 319
\* x[:10] as the sequence a for loop then visits; only a list and a str
\* can be sliced
FirstTen(x) ==
  CASE x.t = "list" -> JList(SubSeq(x.v, 1, Min(10, Len(x.v))))
    [] x.t = "str" -> Iter(JStr(SubSeq(x.s, 1, Min(10, Len(x.s)))))
    [] x.t = "dict" -> Raise("unhashable type: 'slice'")
    [] OTHER -> Raise("'" \o TypeName(x) \o "' object is not subscriptable")
InjuryPlayer(player) ==
  IF ~IsDict(player) THEN NoAttribute(player, "get")
  ELSE JDict(<<
    KV("name", Get(player, "name", JStr(""))),
    KV("position", Get(player, "position", JStr(""))),
    KV("status", Get(player, "status", JStr(""))),
    KV("injury", Get(player, "injury", JStr("")))>>)
InjuryTeam(team) ==
  IF ~IsDict(team) THEN NoAttribute(team, "get")
  ELSE LET Injuries(players) ==
             IF IsRaise(players) THEN players
             ELSE Collect([i \in 1..Len(players.v) |-> InjuryPlayer(players.v[i])])
       IN SetOrRaise(JDict(<<KV("name", Get(team, "name", JStr(""))),
                             KV("alias", Get(team, "alias", JStr("")))>>),
                     "injuries", Injuries(FirstTen(Get(team, "players", JList(<<>>)))))
SummarizeInjuryData(data) ==
  LET Caught(r) == IF IsRaise(r) THEN JDict(<<KV("summary", JPad(InjuryFillerLen))>>) ELSE r
      Summaries(teams) ==
        IF IsRaise(teams) THEN teams
        ELSE Collect([i \in 1..Len(teams.v) |-> InjuryTeam(teams.v[i])])
  IN Caught(
       IF IsList(data)
         THEN SetOrRaise(JDict(<<KV("week", JStr("current"))>>), "teams_with_injuries",
                         Summaries(FirstTen(data)))
       ELSE IF ~IsDict(data) THEN NoAttribute(data, "get")
       ELSE SetOrRaise(JDict(<<KV("week", Get(data, "week", JStr("")))>>), "teams_with_injuries",
                       Summaries(FirstTen(Get(data, "teams", JList(<<>>))))))

\* ------------------------------------------------------------------------
\* The prioritizers
\* ------------------------------------------------------------------------
ListCap == 30
RosCap == 15
DraftCapMentioned == 30
DraftCapPlain == 20

\* any(part in player_name for part in mentioned_parts if len(part) > 2)
AnyPartIn(parts, player_name) ==
  \E i \in 1..Len(parts) : Len(parts[i]) > 2 /\ IsSubstring(parts[i], player_name)

\* the loop over mentioned_players for one record, from the i-th mention:
\* "yes" at the first mention with a matching part, "no" when none matches,
\* "raise" when a mention that is not a str is reached first
RECURSIVE MentionScan(_, _, _)
MentionScan(player_name, mentioned_players, i) ==
  IF i > Len(mentioned_players) THEN "no"
  ELSE IF ~IsStr(mentioned_players[i]) THEN "raise"
  ELSE IF AnyPartIn(Split(Lower(mentioned_players[i].s)), player_name) THEN "yes"
  ELSE MentionScan(player_name, mentioned_players, i + 1)
FirstNonStr(mentioned_players) ==
  mentioned_players[CHOOSE i \in 1..Len(mentioned_players) :
    ~IsStr(mentioned_players[i]) /\ \A j \in 1..(i - 1) : IsStr(mentioned_players[j])]

\* the class of one record in the first pass of a prioritizer:
\* "yes" (mentioned), "no" (remaining), "drop" or a raised exception
ClassOf(player, mentioned_players, keepOther, name) ==
  IF ~IsDict(player) THEN (IF keepOther THEN "no" ELSE "drop")
  ELSE IF ~IsStr(name) THEN "raise"
  ELSE MentionScan(Lower(name.s), mentioned_players, 1)
RaisedBy(player, mentioned_players, name) ==
  IF ~IsStr(name) THEN NoAttribute(name, "lower")
  ELSE NoAttribute(FirstNonStr(mentioned_players), "lower")

ListName(player) == Get(player, "name", Get(player, "display_name", JStr("")))
PlainName(player) == Get(player, "name", JStr(""))
NameOf(player, useDisplay) == IF useDisplay THEN ListName(player) ELSE PlainName(player)

\* the first pass over one list: the exception it raises (or Null), the
\* prioritized_players and the remaining_players, each in input order
PickClass(ps, cls, c) ==
  LET sel == SelectSeq([i \in 1..Len(ps) |-> i], LAMBDA i : cls[i] = c)
  IN [k \in 1..Len(sel) |-> ps[sel[k]]]
\* a first pass that groups the prioritized records by the first mention
FirstPassByMention(ps, mentioned_players, keepOther, useDisplay) ==
  LET cls == [i \in 1..Len(ps) |->
               ClassOf(ps[i], mentioned_players, keepOther, NameOf(ps[i], useDisplay))]
      bad == {i \in 1..Len(ps) : cls[i] = "raise"}
      ByFirst(yes) ==
        SelectSeq(yes, LAMBDA player :
          MentionScan(Lower(NameOf(player, useDisplay).s),
                      <<mentioned_players[1]>>, 1) = "yes")
        \o SelectSeq(yes, LAMBDA player :
          MentionScan(Lower(NameOf(player, useDisplay).s),
                      <<mentioned_players[1]>>, 1) # "yes")
  IN [raised |-> IF bad = {} THEN Null
                 ELSE LET b == CHOOSE i \in bad : \A j \in bad : i <= j
                      IN RaisedBy(ps[b], mentioned_players, NameOf(ps[b], useDisplay)),
      prioritized_players |-> IF bad = {} THEN ByFirst(PickClass(ps, cls, "yes")) ELSE <<>>,
      remaining_players |-> PickClass(ps, cls, "no")]
FirstPass(ps, mentioned_players, keepOther, useDisplay) ==
  LET cls == [i \in 1..Len(ps) |->
               ClassOf(ps[i], mentioned_players, keepOther, NameOf(ps[i], useDisplay))]
      bad == {i \in 1..Len(ps) : cls[i] = "raise"}
  IN [raised |-> IF bad = {} THEN Null
                 ELSE LET b == CHOOSE i \in bad : \A j \in bad : i <= j
                      IN RaisedBy(ps[b], mentioned_players, NameOf(ps[b], useDisplay)),
      prioritized_players |-> PickClass(ps, cls, "yes"),
      remaining_players |-> PickClass(ps, cls, "no")]

\* a combination that fills up from the whole list, mentioned records included
CombineRepeating(fp, cap) ==
  fp.prioritized_players
    \o SliceTo(fp.prioritized_players \o fp.remaining_players,
               cap - Len(fp.prioritized_players))
\* prioritized_players + remaining_players[:cap - len(prioritized_players)]
Combine(fp, cap) ==
  fp.prioritized_players
    \o SliceTo(fp.remaining_players, cap - Len(fp.prioritized_players))

\* _prioritize_players_in_list
PrioritizePlayersInList(players_list, mentioned_players) ==
  IF ~Truthy(players_list) \/ Len(mentioned_players) = 0 THEN players_list
  ELSE LET fp == FirstPass(players_list.v, mentioned_players, TRUE, TRUE)
       IN IF IsRaise(fp.raised) THEN fp.raised ELSE JList(Combine(fp, ListCap))

\* _prioritize_mentioned_players_in_ros: every list-valued key other than
\* season and metadata is replaced; records that are not mappings are dropped
RECURSIVE PrioritizeRosFrom(_, _, _, _)
PrioritizeRosFrom(ros_data, mentioned_players, i, acc) ==
  IF i > Len(ros_data.kv) THEN acc
  ELSE LET position == ros_data.kv[i].k
           players == ros_data.kv[i].v
       IN IF ~IsList(players) \/ position \in {"season", "metadata"}
            THEN PrioritizeRosFrom(ros_data, mentioned_players, i + 1, acc)
            ELSE LET fp == FirstPass(players.v, mentioned_players, FALSE, FALSE)
                 IN IF IsRaise(fp.raised) THEN fp.raised
                    ELSE PrioritizeRosFrom(ros_data, mentioned_players, i + 1,
                           SetItem(acc, position, JList(Combine(fp, RosCap))))
PrioritizeMentionedPlayersInRos(ros_data, mentioned_players) ==
  IF Len(mentioned_players) = 0 \/ ~IsDict(ros_data) THEN ros_data
  ELSE PrioritizeRosFrom(ros_data, mentioned_players, 1, ros_data)

\* _prioritize_mentioned_players_in_draft_projections: works on the
\* summarized shape {positions: {POS: {count, all_players}}}
RECURSIVE PrioritizeDraftFrom(_, _, _, _)
PrioritizeDraftFrom(positions, mentioned_players, i, acc) ==
  IF i > Len(positions.kv) THEN acc
  ELSE LET position == positions.kv[i].k
           position_data == positions.kv[i].v
       IN IF ~IsDict(position_data) \/ ~HasKey(position_data, "all_players")
               \/ ~IsList(Item(position_data, "all_players"))
            THEN PrioritizeDraftFrom(positions, mentioned_players, i + 1,
                                     SetItem(acc, position, position_data))
            ELSE LET players == Item(position_data, "all_players").v
                     fp == FirstPass(players, mentioned_players, FALSE, FALSE)
                     max_players_per_position ==
                       IF position = "K" /\ Len(fp.prioritized_players) > 0 THEN Len(players)
                       ELSE IF Len(fp.prioritized_players) > 0 THEN DraftCapMentioned
                       ELSE DraftCapPlain
                 IN IF IsRaise(fp.raised) THEN fp.raised
                    ELSE PrioritizeDraftFrom(positions, mentioned_players, i + 1,
                           SetItem(acc, position, SetItem(position_data, "all_players",
                             JList(Combine(fp, max_players_per_position)))))
PrioritizeMentionedPlayersInDraftProjections(draft_data, mentioned_players) ==
  IF Len(mentioned_players) = 0 \/ ~IsDict(draft_data) THEN draft_data
  ELSE IF ~HasKey(draft_data, "positions") THEN draft_data
  ELSE IF ~IsDict(Item(draft_data, "positions"))
    THEN NoAttribute(Item(draft_data, "positions"), "items")
  ELSE LET ps == PrioritizeDraftFrom(Item(draft_data, "positions"), mentioned_players,
                                     1, JDict(<<>>))
       IN IF IsRaise(ps) THEN ps ELSE SetItem(draft_data, "positions", ps)

\* _prioritize_mentioned_players_in_fantasy_rankings
RECURSIVE PrioritizePositionsFrom(_, _, _, _)
PrioritizePositionsFrom(rankings_data, mentioned_players, i, acc) ==
  IF i > Len(rankings_data.kv) THEN acc
  ELSE LET position == rankings_data.kv[i].k
           players == rankings_data.kv[i].v
       IN IF ~IsList(players) \/ position \in {"season", "metadata"}
            THEN PrioritizePositionsFrom(rankings_data, mentioned_players, i + 1, acc)
            ELSE LET r == PrioritizePlayersInList(players, mentioned_players)
                 IN IF IsRaise(r) THEN r
                    ELSE PrioritizePositionsFrom(rankings_data, mentioned_players, i + 1,
                                                 SetItem(acc, position, r))
RECURSIVE PrioritizeMentionedPlayersInFantasyRankings(_, _)
PrioritizeMentionedPlayersInFantasyRankings(rankings_data, mentioned_players) ==
  IF Len(mentioned_players) = 0 \/ ~Truthy(rankings_data) THEN rankings_data
  ELSE IF IsList(rankings_data) THEN PrioritizePlayersInList(rankings_data, mentioned_players)
  ELSE IF IsDict(rankings_data) THEN
    IF IsPositionKeyed(rankings_data)
      THEN PrioritizePositionsFrom(rankings_data, mentioned_players, 1, rankings_data)
    ELSE IF HasKey(rankings_data, "players") /\ IsList(Item(rankings_data, "players"))
      THEN SetOrRaise(rankings_data, "players",
             PrioritizePlayersInList(Item(rankings_data, "players"), mentioned_players))
    ELSE IF HasKey(rankings_data, "players_sample")
              /\ IsList(Item(rankings_data, "players_sample"))
      THEN SetOrRaise(rankings_data, "players_sample",
             PrioritizePlayersInList(Item(rankings_data, "players_sample"), mentioned_players))
    ELSE IF HasKey(rankings_data, "data")
      THEN SetOrRaise(rankings_data, "data",
             PrioritizeMentionedPlayersInFantasyRankings(Item(rankings_data, "data"),
                                                         mentioned_players))
    ELSE rankings_data
  ELSE rankings_data

\* _prioritize_mentioned_teams_in_standings
TeamMentioned(team_name, team_alias, mentioned_teams) ==
  \E i \in 1..Len(mentioned_teams) :
    LET mentioned_lower == Lower(mentioned_teams[i].s)
    IN \/ IsSubstring(mentioned_lower, team_name)
       \/ IsSubstring(mentioned_lower, team_alias)
       \/ IsSubstring(team_name, mentioned_lower)
       \/ IsSubstring(team_alias, mentioned_lower)
\* "yes", "no" or "raise" for one team of a division
TeamClass(team, mentioned_teams) ==
  IF ~IsDict(team) THEN "raise"
  ELSE IF ~IsStr(Get(team, "name", JStr(""))) \/ ~IsStr(Get(team, "alias", JStr(""))) THEN "raise"
  ELSE IF TeamMentioned(Lower(Get(team, "name", JStr("")).s),
                        Lower(Get(team, "alias", JStr("")).s), mentioned_teams)
    THEN "yes"
  ELSE "no"
TeamRaise(team) ==
  IF ~IsDict(team) THEN NoAttribute(team, "get")
  ELSE IF ~IsStr(Get(team, "name", JStr(""))) THEN NoAttribute(Get(team, "name", JStr("")), "lower")
  ELSE NoAttribute(Get(team, "alias", JStr("")), "lower")
PrioritizeDivision(division, mentioned_teams) ==
  IF ~IsDict(division) THEN NoAttribute(division, IF IsList(division) THEN "get" ELSE "copy")
  ELSE LET teams == Iter(Get(division, "teams", JList(<<>>)))
       IN IF IsRaise(teams) THEN teams
          ELSE LET cls == [i \in 1..Len(teams.v) |-> TeamClass(teams.v[i], mentioned_teams)]
                   bad == {i \in 1..Len(teams.v) : cls[i] = "raise"}
               IN IF bad # {}
                    THEN TeamRaise(teams.v[CHOOSE i \in bad : \A j \in bad : i <= j])
                    ELSE SetItem(division, "teams",
                           JList(PickClass(teams.v, cls, "yes") \o PickClass(teams.v, cls, "no")))
PrioritizeConference(conference, mentioned_teams) ==
  IF ~IsDict(conference) THEN NoAttribute(conference, IF IsList(conference) THEN "get" ELSE "copy")
  ELSE LET divisions == Iter(Get(conference, "divisions", JList(<<>>)))
       IN IF IsRaise(divisions) THEN divisions
          ELSE SetOrRaise(conference, "divisions",
                 Collect([i \in 1..Len(divisions.v) |->
                           PrioritizeDivision(divisions.v[i], mentioned_teams)]))
PrioritizeMentionedTeamsInStandings(standings_data, mentioned_teams) ==
  IF Len(mentioned_teams) = 0 \/ ~IsDict(standings_data) THEN standings_data
  ELSE IF ~HasKey(standings_data, "conferences") THEN standings_data
  ELSE LET confs == Iter(Item(standings_data, "conferences"))
       IN IF IsRaise(confs) THEN confs
          ELSE SetOrRaise(standings_data, "conferences",
                 Collect([i \in 1..Len(confs.v) |->
                           PrioritizeConference(confs.v[i], mentioned_teams)]))

\* ------------------------------------------------------------------------
\* _extract_player_names_from_query, _extract_team_names_from_query
\* Queries are made of letters and single spaces, so the regular expression
\* \b[A-Z][a-z]+\b matches exactly the space-separated tokens made of one
\* capital followed by one or more small letters.
\* ------------------------------------------------------------------------
IsCapWord(w) ==
  /\ Len(w) >= 2
  /\ IsUpper(CharAt(w, 1))
  /\ \A i \in 2..Len(w) : IsLower(CharAt(w, i))
CapWords(query) == SelectSeq(Split(query), IsCapWord)
\* two-word candidates from words[0:2], words[2:4], ...
PairNames(words) ==
  {words[2 * k - 1] \o " " \o words[2 * k] : k \in 1..(Len(words) \div 2)}
SingleNames(query) ==
  {CapWords(query)[i] : i \in {j \in 1..Len(CapWords(query)) : Len(CapWords(query)[j]) >= 4}}
CommonWords == {"NFL", "ROS", "VORP", "Fantasy", "Football", "Player", "Team", "Season",
                "Week", "Analysis", "Projections"}
\* set(filtered_names)
PlayerNameSet(query) ==
  {n \in PairNames(CapWords(query)) \cup SingleNames(query) : n \notin CommonWords /\ Len(n) > 2}

NflTeams ==
  {"bills", "dolphins", "patriots", "jets", "ravens", "bengals", "browns", "steelers",
   "texans", "colts", "jaguars", "titans", "broncos", "chiefs", "raiders", "chargers",
   "cowboys", "giants", "eagles", "commanders", "bears", "lions", "packers", "vikings",
   "falcons", "panthers", "saints", "buccaneers", "cardinals", "rams", "49ers", "seahawks",
   "buf", "mia", "ne", "nyj", "bal", "cin", "cle", "pit", "hou", "ind", "jax", "ten",
   "den", "kc", "lv", "lac", "dal", "nyg", "phi", "was", "chi", "det", "gb", "min",
   "atl", "car", "no", "tb", "ari", "lar", "sf", "sea"}
\* the teams that pass (team in query_lower.split())
WordsIn(words) == {words[i] : i \in 1..Len(words)}
TeamNameSet(query) == NflTeams \cap WordsIn(Split(Lower(query)))

\* list(a_set), and the order in which a loop over a set of str appends:
\* the iteration order of a set of str is not fixed by the program (it
\* follows the per-process string hash), so every order is possible
Orderings(S) ==
  {f \in [1..Cardinality(S) -> S] : \A i, j \in 1..Cardinality(S) : f[i] = f[j] => i = j}
AsStrList(f) == [i \in 1..Len(f) |-> JStr(f[i])]
ExtractPlayerNamesFromQuery(query) == {AsStrList(f) : f \in Orderings(PlayerNameSet(query))}
ExtractTeamNamesFromQuery(query) == {AsStrList(f) : f \in Orderings(TeamNameSet(query))}

\* ------------------------------------------------------------------------
\* _summarize_context_data, for the categories of ModelledSteps (the
\* remaining categories of the source are not part of this model and do not
\* occur in its bundles)
\* ------------------------------------------------------------------------
ContextFillerLen == 141
Step(k, out, kind) == [key |-> k, out |-> out, kind |-> kind]
ModelledSteps == <<
  Step("standings", "standings", "standings"),
  Step("draft_rankings", "draft_rankings", "rankings_prioritized"),
  Step("weekly_rankings", "weekly_rankings", "rankings_prioritized"),
  Step("ros_projections", "ros_projections", "ros"),
  Step("adp", "adp", "rankings"),
  Step("player_tiers", "player_tiers", "rankings"),
  Step("auction_values", "auction_values", "rankings"),
  Step("best_ball", "best_ball", "rankings"),
  Step("dynasty", "dynasty", "rankings"),
  Step("fantasy_leaders", "fantasy_leaders", "rankings"),
  Step("weekly_projections", "weekly_projections", "rankings"),
  Step("defense_rankings", "defense_rankings", "rankings"),
  Step("draft_projections", "draft_projections", "draft"),
  Step("idp_draft", "idp_draft", "rankings"),
  Step("idp_weekly", "idp_weekly", "rankings")>>

\* f(g(x)) where g may raise
Then(r, kind) ==
  IF IsRaise(r) THEN r
  ELSE CASE kind = "rankings" -> SummarizeFantasyRankings(r)
         [] kind = "ros" -> SummarizeRosProjections(r)
         [] kind = "draft" -> SummarizeDraftProjections(r)

\* the value one step stores under its key, or the exception it raises
StepValue(step, raw, mentioned_players) ==
  IF step.kind = "standings" THEN SummarizeStandingsData(raw)
  ELSE Then(IF Len(mentioned_players) > 0
              THEN CASE step.kind = "rankings_prioritized" ->
                          PrioritizeMentionedPlayersInFantasyRankings(raw, mentioned_players)
                     [] step.kind = "ros" ->
                          PrioritizeMentionedPlayersInRos(raw, mentioned_players)
                     [] step.kind = "draft" ->
                          PrioritizeMentionedPlayersInDraftProjections(raw, mentioned_players)
                     [] step.kind = "rankings" -> raw
              ELSE raw,
            IF step.kind = "rankings_prioritized" THEN "rankings" ELSE step.kind)

RECURSIVE RunSteps(_, _, _, _)
RunSteps(data, mentioned_players, i, summarized) ==
  IF i > Len(ModelledSteps) THEN summarized
  ELSE IF ~HasKey(data, ModelledSteps[i].key)
    THEN RunSteps(data, mentioned_players, i + 1, summarized)
  ELSE LET Store(r) ==
             IF IsRaise(r) THEN r
             ELSE RunSteps(data, mentioned_players, i + 1,
                           SetItem(summarized, ModelledSteps[i].out, r))
       IN Store(StepValue(ModelledSteps[i], Item(data, ModelledSteps[i].key),
                          mentioned_players))

\* a fallback that keeps the container built before the try
ContextFallbackKeepingType(e) ==
  JDict(<<KV("query_type", JStr("unknown")), KV("metadata", JDict(<<>>)),
          KV("summary", JPad(ContextFillerLen)), KV("error", JStr(e.msg))>>)

\* except Exception as e: the whole summary becomes one fallback object
ContextFallback(e) ==
  JDict(<<KV("summary", JPad(ContextFillerLen)), KV("error", JStr(e.msg))>>)

SummarizeContextDataUncaught(data, mentioned_players, mentioned_teams) ==
  LET summarized == JDict(<<
        KV("query_type", Get(data, "query_type", JStr("unknown"))),
        KV("metadata", Get(data, "metadata", JDict(<<>>)))>>)
  IN RunSteps(data, mentioned_players, 1, summarized)
\* a compactor that copies the keys it does not know into the summary
SummarizeContextDataCopying(data, mentioned_players, mentioned_teams) ==
  LET Copied(r) ==
        IF IsRaise(r) THEN ContextFallback(r)
        ELSE JDict(r.kv \o SelectSeq(data.kv, LAMBDA kv : ~HasKey(r, kv.k)))
  IN Copied(SummarizeContextDataUncaught(data, mentioned_players, mentioned_teams))
SummarizeContextData(data, mentioned_players, mentioned_teams) ==
  LET summarized == JDict(<<
        KV("query_type", Get(data, "query_type", JStr("unknown"))),
        KV("metadata", Get(data, "metadata", JDict(<<>>)))>>)
      Caught(r) == IF IsRaise(r) THEN ContextFallback(r) ELSE r
  IN Caught(RunSteps(data, mentioned_players, 1, summarized))

\* ------------------------------------------------------------------------
\* Budget enforcement (generate_response, the block under
\* "if len(context_str) > max_context_size")
\* A text is json.dumps(of, indent=2)[:prefix] + suffix.
\* ------------------------------------------------------------------------
max_context_size == 50000
TruncationMarker == "...[additional data available - query for specific players]"
MetadataNote == "Comprehensive dataset - metadata truncated for space"
FallbackPriority == <<"ros_projections", "draft_projections", "draft_rankings",
                      "weekly_rankings", "dynasty", "best_ball", "adp", "player_tiers",
                      "auction_values">>
FallbackPlayerKeys == {"weekly_rankings", "dynasty", "best_ball", "adp", "player_tiers",
                       "auction_values"}
FallbackTeamKeys == {"standings", "league", "teams"}

Dumps(x) == [of |-> x, prefix |-> JsonLen(x), suffix |-> ""]
TextLen(text) == text.prefix + Len(text.suffix)
NoText == [of |-> Null, prefix |-> 0, suffix |-> ""]
TruncateWithin(text) ==
  [of |-> text.of, prefix |-> Min(text.prefix, max_context_size - Len(TruncationMarker)),
   suffix |-> TruncationMarker]
\* context_str[:max_context_size] + marker
Truncate(text) ==
  [of |-> text.of, prefix |-> Min(text.prefix, max_context_size), suffix |-> TruncationMarker]

HasFallbackKey(context_obj) ==
  \E i \in 1..Len(FallbackPriority) : HasKey(context_obj, FallbackPriority[i])
FirstFallbackKey(context_obj) ==
  FallbackPriority[CHOOSE i \in 1..Len(FallbackPriority) :
    /\ HasKey(context_obj, FallbackPriority[i])
    /\ \A j \in 1..(i - 1) : ~HasKey(context_obj, FallbackPriority[j])]

\* the value stored for the one category kept by the fallback loop
FallbackValue(context_obj, key, mentioned_players, mentioned_teams) ==
  IF Len(mentioned_players) > 0 /\ key \in FallbackPlayerKeys
    THEN PrioritizeMentionedPlayersInFantasyRankings(Item(context_obj, key), mentioned_players)
  ELSE IF Len(mentioned_teams) > 0 /\ key \in FallbackTeamKeys
    THEN (IF key = "standings"
            THEN PrioritizeMentionedTeamsInStandings(Item(context_obj, key), mentioned_teams)
            ELSE Item(context_obj, key))
  ELSE Item(context_obj, key)

ReduceFallbackOnly(context_obj, mentioned_players, mentioned_teams) ==
  IF HasFallbackKey(context_obj) THEN
    [branch |-> "fallback", key |-> FirstFallbackKey(context_obj),
     value |-> FallbackValue(context_obj, FirstFallbackKey(context_obj),
                             mentioned_players, mentioned_teams)]
  ELSE [branch |-> "fallback", key |-> "", value |-> Null]
\* the if/elif chain that picks the one category of essential_data:
\* branch names the arm taken, key the category it keeps ("" if none),
\* value what it stores (or the exception raised while computing it)
Reduce(context_obj, mentioned_players, mentioned_teams) ==
  LET query_type == Get(context_obj, "query_type", JStr(""))
      mentions == Len(mentioned_players) > 0
  IN IF query_type = JStr("ros_projections") /\ HasKey(context_obj, "ros_projections") THEN
       \* the debug block evaluates ("RB" in essential_data["ros_projections"])
       LET Debugged(v) ==
             IF ~IsRaise(v) /\ mentions /\ ~IsContainer(v) THEN NotIterable(v) ELSE v
       IN [branch |-> "ros_projections", key |-> "ros_projections",
           value |-> Debugged(IF mentions
                                THEN PrioritizeMentionedPlayersInRos(
                                       Item(context_obj, "ros_projections"), mentioned_players)
                                ELSE Item(context_obj, "ros_projections"))]
     ELSE IF query_type = JStr("draft_projections") /\ HasKey(context_obj, "draft_projections") THEN
       [branch |-> "draft_projections", key |-> "draft_projections",
        value |-> IF mentions
                    THEN PrioritizeMentionedPlayersInDraftProjections(
                           Item(context_obj, "draft_projections"), mentioned_players)
                    ELSE Item(context_obj, "draft_projections")]
     ELSE IF HasKey(context_obj, "draft_rankings")
               /\ ~IsContainer(Item(context_obj, "draft_rankings")) THEN
       \* ("players_sample" in context_obj["draft_rankings"]) raises
       [branch |-> "draft_rankings", key |-> "",
        value |-> NotIterable(Item(context_obj, "draft_rankings"))]
     ELSE IF HasKey(context_obj, "draft_rankings")
               /\ In("players_sample", Item(context_obj, "draft_rankings")) THEN
       [branch |-> "draft_rankings", key |-> "draft_rankings",
        value |-> IF mentions
                    THEN PrioritizeMentionedPlayersInFantasyRankings(
                           Item(context_obj, "draft_rankings"), mentioned_players)
                    ELSE Item(context_obj, "draft_rankings")]
     ELSE IF HasFallbackKey(context_obj) THEN
       [branch |-> "fallback", key |-> FirstFallbackKey(context_obj),
        value |-> FallbackValue(context_obj, FirstFallbackKey(context_obj),
                                mentioned_players, mentioned_teams)]
     ELSE [branch |-> "fallback", key |-> "", value |-> Null]

EssentialData(context_obj, red) ==
  LET essential_data == JDict(<<
        KV("query_type", Get(context_obj, "query_type", JStr(""))),
        KV("metadata", JDict(<<KV("note", JStr(MetadataNote))>>))>>)
  IN IF red.key = "" THEN essential_data ELSE SetItem(essential_data, red.key, red.value)

\* a budget step that cuts at the limit and appends the marker to every text
EnforceBudgetMarking(summarized_data, mentioned_players, mentioned_teams) ==
  LET Marked(full) ==
        [raised |-> Null, full |-> full, branch |-> "none", key |-> "",
         essential_data |-> Null, reduced |-> NoText,
         truncated |-> TextLen(full) > max_context_size,
         context_str |-> Truncate(full)]
  IN Marked(Dumps(summarized_data))

\* the outcome of the whole block, from json.dumps(summarized_data) on:
\*   raised        the exception that leaves generate_response, or Null
\*   full          json.dumps(summarized_data, indent=2)
\*   branch, key   the arm of the chain taken ("none" within the budget)
\*   essential_data, reduced   the reduced summary and its serialization
\*   truncated     whether the final size check cut the text
\*   context_str   the text appended as the last system message
EnforceBudget(summarized_data, mentioned_players, mentioned_teams) ==
  LET FinalCheck(full, red, essential_data, reduced) ==
        [raised |-> Null, full |-> full, branch |-> red.branch, key |-> red.key,
         essential_data |-> essential_data, reduced |-> reduced,
         truncated |-> TextLen(reduced) > max_context_size,
         context_str |-> IF TextLen(reduced) > max_context_size
                           THEN Truncate(reduced) ELSE reduced]
      Serialized(full, red, essential_data) ==
        FinalCheck(full, red, essential_data, Dumps(essential_data))
      Over(full, red) ==
        IF IsRaise(red.value)
          THEN [raised |-> red.value, full |-> full, branch |-> red.branch, key |-> red.key,
                essential_data |-> Null, reduced |-> NoText, truncated |-> FALSE,
                context_str |-> NoText]
          ELSE Serialized(full, red, EssentialData(full.of, red))
      \* json.loads(context_str) gives back the summary (full.of): it holds
      \* only str keys, str, int, None, list and dict
      Checked(full) ==
        IF TextLen(full) <= max_context_size
          THEN [raised |-> Null, full |-> full, branch |-> "none", key |-> "",
                essential_data |-> Null, reduced |-> NoText, truncated |-> FALSE,
                context_str |-> full]
          ELSE Over(full, Reduce(full.of, mentioned_players, mentioned_teams))
  IN Checked(Dumps(summarized_data))

\* ------------------------------------------------------------------------
\* The cache key: sha256 of query + str(context_data). The digest is taken
\* to be collision free, so the key is the hashed text itself.
\* ------------------------------------------------------------------------
RECURSIVE Str(_)
RECURSIVE JoinStr(_, _, _)
\* ", ".join of the rendered items (dict items as 'key': value)
JoinStr(x, i, n) ==
  IF i > n THEN ""
  ELSE (IF i > 1 THEN ", " ELSE "")
         \o (IF IsDict(x) THEN "'" \o x.kv[i].k \o "': " \o Str(x.kv[i].v) ELSE Str(x.v[i]))
         \o JoinStr(x, i + 1, n)
\* str(x); the pad characters of a str are rendered as <n>
Str(x) ==
  CASE x.t = "null" -> "None"
    [] x.t = "int" -> ToString(x.n)
    [] x.t = "str" -> "'" \o x.s \o (IF x.pad > 0 THEN "<" \o ToString(x.pad) \o ">" ELSE "") \o "'"
    [] x.t = "list" -> "[" \o JoinStr(x, 1, Len(x.v)) \o "]"
    [] x.t = "dict" -> "{" \o JoinStr(x, 1, Len(x.kv)) \o "}"
CacheKey(query, context_data) == query \o Str(context_data)

\* ------------------------------------------------------------------------
\* generate_response up to the transport call
\* ------------------------------------------------------------------------
LLM_CACHE_TTL == 60 * 10

\* the possible values of mentioned_players: [target_player] when the
\* bundle's metadata holds one, else the extractor's list; Raise when the
\* test ("target_player" in context_data["metadata"]) raises
HasTargetPlayer(context_data) ==
  /\ Truthy(context_data)
  /\ HasKey(context_data, "metadata")
  /\ In("target_player", Item(context_data, "metadata"))
\* a mention list that adds the names found in the query to target_player
MentionedPlayersMerged(query, context_data) ==
  IF Truthy(context_data) /\ HasKey(context_data, "metadata")
       /\ ~IsContainer(Item(context_data, "metadata"))
    THEN {<<NotIterable(Item(context_data, "metadata"))>>}
  ELSE IF HasTargetPlayer(context_data)
    THEN (IF IsDict(Item(context_data, "metadata"))
            THEN {<<Item(Item(context_data, "metadata"), "target_player")>> \o names :
                    names \in ExtractPlayerNamesFromQuery(query)}
            ELSE {<<Raise("indices must be integers")>>})
  ELSE ExtractPlayerNamesFromQuery(query)
MentionedPlayers(query, context_data) ==
  IF Truthy(context_data) /\ HasKey(context_data, "metadata")
       /\ ~IsContainer(Item(context_data, "metadata"))
    THEN {<<NotIterable(Item(context_data, "metadata"))>>}
  ELSE IF HasTargetPlayer(context_data)
    THEN (IF IsDict(Item(context_data, "metadata"))
            THEN {<<Item(Item(context_data, "metadata"), "target_player")>>}
            ELSE {<<Raise("indices must be integers")>>})
  ELSE ExtractPlayerNamesFromQuery(query)
ExtractionRaised(mentioned_players) ==
  Len(mentioned_players) = 1 /\ IsRaise(mentioned_players[1])

\* lines 40-219 for one choice of the two mention lists: the locals that
\* the rest of the call and the properties below look at
Prepare(query, context_data, mentioned_players, mentioned_teams) ==
  LET Budgeted(summarized_data, budget) ==
        [raised |-> budget.raised, ran |-> {"extraction", "compaction", "budget"},
         summarized_data |-> summarized_data, budget |-> budget,
         has_context |-> ~IsRaise(budget.raised),
         context_str |-> budget.context_str]
      Summarized(summarized_data) ==
        IF IsRaise(summarized_data)
          THEN [raised |-> summarized_data, ran |-> {"extraction", "compaction"},
                summarized_data |-> summarized_data, budget |-> Null, has_context |-> FALSE,
                context_str |-> NoText]
          ELSE Budgeted(summarized_data,
                        EnforceBudget(summarized_data, mentioned_players, mentioned_teams))
  IN IF ExtractionRaised(mentioned_players)
       THEN [raised |-> mentioned_players[1], ran |-> {"extraction"},
             summarized_data |-> Null, budget |-> Null, has_context |-> FALSE,
             context_str |-> NoText]
     ELSE IF ~Truthy(context_data)
       THEN [raised |-> Null, ran |-> {"extraction"},
             summarized_data |-> Null, budget |-> Null, has_context |-> FALSE,
             context_str |-> NoText]
     ELSE Summarized(SummarizeContextData(context_data, mentioned_players, mentioned_teams))

\* the test of line 37 on a stored entry (cached_time, cached_response)
FreshInclusive(entry, now) == now - entry[1] <= LLM_CACHE_TTL
Fresh(entry, now) == now - entry[1] < LLM_CACHE_TTL

\* ------------------------------------------------------------------------
\* Bounds and inputs
\* ------------------------------------------------------------------------
MaxTicks == 3
MaxRequests == 2
Heavy == 30000
Huge == 60000
TickStep == LLM_CACHE_TTL \div 2
Procs == {1, 2}
Responses == {"r1", "r2"}

Player(name, team) == JDict(<<KV("name", name), KV("team", team)>>)
Mahomes == Player(JStr("Pat Mahomes"), JStr("KC"))
Allen(team) == Player(JStr("Josh Allen"), team)
Nameless(team) == Player(Null, team)
Unnamed(team) ==
  JDict(<<KV("name", JStr("Josh Allen")), KV("display_name", Null), KV("team", team)>>)
Standard(players) ==
  JDict(<<KV("season", JInt(2025)), KV("projections", JDict(<<KV("QB", JList(players))>>))>>)
Conference(name) ==
  JDict(<<KV("name", name),
          KV("divisions", JList(<<JDict(<<KV("name", JStr("West")),
             KV("teams", JList(<<
               JDict(<<KV("name", JStr("Raiders")), KV("alias", JStr("LV")), KV("wins", JInt(2))>>),
               JDict(<<KV("name", JStr("Chiefs")), KV("alias", JStr("KC")), KV("wins", JInt(9))>>)
             >>))>>)>>))>>)
Standings(name) ==
  JDict(<<KV("season", JDict(<<KV("year", JInt(2025))>>)),
          KV("conferences", JList(<<Conference(name)>>))>>)

\* the categories of a bundle, in the order the caller inserted them
CategoryChoices == <<
  <<KV("ros_projections", Standard(<<Allen(JStr("BUF")), Mahomes>>))>>,
  <<KV("ros_projections", Standard(<<Allen(JPad(Heavy)), Mahomes>>)),
    KV("weekly_rankings", JList(<<Allen(JPad(Heavy)), Mahomes>>))>>,
  <<KV("ros_projections", Standard(<<Allen(JPad(Huge)), Mahomes>>))>>,
  <<KV("ros_projections", Standard(<<Nameless(JPad(Heavy)), Mahomes>>)),
    KV("weekly_rankings", JList(<<Allen(JPad(Heavy)), Mahomes>>))>>,
  <<KV("draft_rankings", JDict(<<KV("players", JList(<<Unnamed(JPad(Heavy)), Mahomes>>))>>)),
    KV("adp", JList(<<Allen(JPad(Heavy)), Mahomes>>))>>,
  <<KV("ros_projections", Standard(<<Allen(JPad(Heavy)), Mahomes>>)),
    KV("draft_rankings", JDict(<<KV("players", JList(<<Allen(JPad(Heavy)), Mahomes>>))>>))>>,
  <<KV("draft_rankings", JDict(<<KV("QB", JList(<<Allen(JStr("BUF")), Mahomes>>))>>)),
    KV("adp", JList(<<Allen(JPad(Huge)), Mahomes>>))>>,
  <<KV("weekly_rankings", JList(<<Allen(JPad(Heavy)), Mahomes>>)),
    KV("adp", JList(<<Allen(JPad(Heavy)), Mahomes>>))>>,
  <<KV("standings", Standings(JPad(Heavy))),
    KV("adp", JList(<<Allen(JPad(Heavy)), Mahomes>>))>>,
  <<KV("standings", Standings(JPad(Huge)))>>,
  <<KV("standings", JList(<<Conference(JStr("AFC"))>>))>>,
  <<KV("draft_projections", Standard(<<Allen(JPad(Heavy)), Mahomes>>)),
    KV("weekly_rankings", JList(<<Allen(JPad(Heavy)), Mahomes>>))>>,
  <<KV("dynasty", JList(<<Allen(JPad(Huge)), Mahomes>>)),
    KV("best_ball", JList(<<Allen(JStr("BUF")), Mahomes>>))>>,
  <<KV("weekly_rankings", JList(<<Nameless(JStr("BUF")), Mahomes>>))>>,
  <<KV("unknown_category", JList(<<Mahomes>>))>>,
  <<KV("draft_rankings", JDict(<<KV("data", JList(<<Allen(JPad(Heavy)), Mahomes>>))>>)),
    KV("adp", JList(<<Allen(JPad(Heavy)), Mahomes>>))>>
>>
CategorySets == {CategoryChoices[i] : i \in 1..Len(CategoryChoices)}
QueryTypes == {<<>>} \cup {<<KV("query_type", JStr(q))>> :
                 q \in {"ros_projections", "draft_projections", "weekly_rankings"}}
Metadatas == {<<>>,
              <<KV("metadata", JDict(<<KV("target_player", JStr("Josh Allen"))>>))>>,
              <<KV("metadata", JDict(<<KV("blob", JPad(Huge))>>))>>}
Bundles == {JDict(q \o m \o c) : q \in QueryTypes, m \in Metadatas, c \in CategorySets}
             \cup {Null, JDict(<<>>)}
Queries == {"who leads", "Pat Mahomes stats", "are chiefs good"}
Request(query, context_data) == [query |-> query, context_data |-> context_data]
AllRequests == {Request(q, b) : q \in Queries, b \in Bundles}
SharedRequests ==
  {Request("who leads", Null),
   Request("Pat Mahomes stats",
           JDict(<<KV("adp", JList(<<Allen(JStr("BUF")), Mahomes>>))>>))}

\* ------------------------------------------------------------------------
\* The service: llm_cache, the wall clock, and the calls of
\* generate_response in flight, one per caller
\* ------------------------------------------------------------------------
VARIABLES llm_cache, clock, pc, call, requests, active, started, probe
vars == <<llm_cache, clock, pc, call, requests, active, started, probe>>

NoCall == [query |-> "", context_data |-> Null, cache_key |-> "", now |-> 0,
           seen |-> <<>>, hit |-> FALSE, ran |-> {},
           mentioned_players |-> <<>>, mentioned_teams |-> <<>>,
           prep |-> Null, ret |-> Null]
Returned(kind, text) == [kind |-> kind, text |-> text]
RateLimitText == "Rate limit exceeded. Please try again later."
ApologyAccess == "I apologize, but I'm currently unable to access NFL data. Please try your question again later."
ApologyTrouble == "I apologize, but I'm having trouble accessing NFL data right now. Please try your question again later."

\* what line 35-36 reads: the entry under the key, <<>> if there is none
Lookup(cache_key) == IF cache_key \in DOMAIN llm_cache THEN llm_cache[cache_key] ELSE <<>>
IsHit(cache_key, now) ==
  cache_key \in DOMAIN llm_cache /\ Fresh(llm_cache[cache_key], now)

\* a single call of one helper, outside any request: the function called,
\* its input (a list of n records laid out by pattern, the mention list,
\* the shape the list is wrapped in) and the value it returned or raised;
\* for a prioritizer also arg, the object passed in as it is after the call
NoProbe == [op |-> "none", n |-> 0, pattern |-> "", mentions |-> <<>>,
            target |-> "", shape |-> "", arg |-> Null, out |-> Null]

InitCommon ==
  /\ llm_cache = <<>>
  /\ clock = 0
  /\ pc = [p \in Procs |-> "idle"]
  /\ call = [p \in Procs |-> NoCall]
  /\ started = 0
\* one caller, one request asked again and again
Init ==
  /\ InitCommon
  /\ requests \in {{r} : r \in AllRequests}
  /\ active = {1}
  /\ probe = NoProbe
\* two callers sharing the cache
InitShared ==
  /\ InitCommon
  /\ requests = SharedRequests
  /\ active = Procs
  /\ probe = NoProbe

CacheHitRefreshing(p, req) ==
  LET cache_key == CacheKey(req.query, req.context_data) IN
  /\ pc[p] = "idle" /\ p \in active /\ started < MaxRequests
  /\ IsHit(cache_key, clock)
  /\ call' = [call EXCEPT ![p] =
       [NoCall EXCEPT !.query = req.query, !.context_data = req.context_data,
                      !.cache_key = cache_key, !.now = clock,
                      !.seen = Lookup(cache_key), !.hit = TRUE,
                      !.ret = Returned("cached", llm_cache[cache_key][2])]]
  /\ llm_cache' = [llm_cache EXCEPT ![cache_key] = <<clock, llm_cache[cache_key][2]>>]
  /\ pc' = [pc EXCEPT ![p] = "done"]
  /\ started' = started + 1
  /\ UNCHANGED <<clock, requests, active, probe>>
\* lines 32-38 when the key is cached and fresh: return cached_response
CacheHit(p, req) ==
  LET cache_key == CacheKey(req.query, req.context_data) IN
  /\ pc[p] = "idle" /\ p \in active /\ started < MaxRequests
  /\ IsHit(cache_key, clock)
  /\ call' = [call EXCEPT ![p] =
       [NoCall EXCEPT !.query = req.query, !.context_data = req.context_data,
                      !.cache_key = cache_key, !.now = clock,
                      !.seen = Lookup(cache_key), !.hit = TRUE,
                      !.ret = Returned("cached", llm_cache[cache_key][2])]]
  /\ pc' = [pc EXCEPT ![p] = "done"]
  /\ started' = started + 1
  /\ UNCHANGED <<llm_cache, clock, requests, active, probe>>

StartEvicting(p, req) ==
  LET cache_key == CacheKey(req.query, req.context_data) IN
  /\ pc[p] = "idle" /\ p \in active /\ started < MaxRequests
  /\ ~IsHit(cache_key, clock)
  /\ \E mentioned_players \in MentionedPlayers(req.query, req.context_data),
       mentioned_teams \in ExtractTeamNamesFromQuery(req.query) :
       \E prep \in {Prepare(req.query, req.context_data, mentioned_players, mentioned_teams)} :
          /\ call' = [call EXCEPT ![p] =
               [NoCall EXCEPT !.query = req.query, !.context_data = req.context_data,
                              !.cache_key = cache_key, !.now = clock,
                              !.seen = Lookup(cache_key),
                              !.mentioned_players = mentioned_players,
                              !.mentioned_teams = mentioned_teams,
                              !.prep = prep, !.ran = prep.ran,
                              !.ret = IF IsRaise(prep.raised)
                                        THEN Returned("raise", prep.raised.msg) ELSE Null]]
          /\ pc' = [pc EXCEPT ![p] = IF IsRaise(prep.raised) THEN "done" ELSE "primary"]
  /\ llm_cache' = [k \in DOMAIN llm_cache \ {cache_key} |-> llm_cache[k]]
  /\ started' = started + 1
  /\ UNCHANGED <<clock, requests, active, probe>>
\* lines 32-219 on a miss: extraction, compaction and budget enforcement
\* run without suspension; the call then awaits the primary request, or
\* ends with the exception raised on the way
Start(p, req) ==
  LET cache_key == CacheKey(req.query, req.context_data) IN
  /\ pc[p] = "idle" /\ p \in active /\ started < MaxRequests
  /\ ~IsHit(cache_key, clock)
  /\ \E mentioned_players \in MentionedPlayers(req.query, req.context_data),
       mentioned_teams \in ExtractTeamNamesFromQuery(req.query) :
       \E prep \in {Prepare(req.query, req.context_data, mentioned_players, mentioned_teams)} :
          /\ call' = [call EXCEPT ![p] =
               [NoCall EXCEPT !.query = req.query, !.context_data = req.context_data,
                              !.cache_key = cache_key, !.now = clock,
                              !.seen = Lookup(cache_key),
                              !.mentioned_players = mentioned_players,
                              !.mentioned_teams = mentioned_teams,
                              !.prep = prep, !.ran = prep.ran,
                              !.ret = IF IsRaise(prep.raised)
                                        THEN Returned("raise", prep.raised.msg) ELSE Null]]
          /\ pc' = [pc EXCEPT ![p] = IF IsRaise(prep.raised) THEN "done" ELSE "primary"]
  /\ started' = started + 1
  /\ UNCHANGED <<llm_cache, clock, requests, active, probe>>

PrimaryOkFirstWins(p, llm_response) ==
  /\ pc[p] = "primary"
  /\ llm_cache' = llm_cache @@ (call[p].cache_key :> <<call[p].now, llm_response>>)
  /\ call' = [call EXCEPT ![p].ret = Returned("primary", llm_response)]
  /\ pc' = [pc EXCEPT ![p] = "done"]
  /\ UNCHANGED <<clock, requests, active, probe, started>>
\* lines 233-239: the primary request succeeded; store and return
PrimaryOk(p, llm_response) ==
  /\ pc[p] = "primary"
  /\ llm_cache' = (call[p].cache_key :> <<call[p].now, llm_response>>) @@ llm_cache
  /\ call' = [call EXCEPT ![p].ret = Returned("primary", llm_response)]
  /\ pc' = [pc EXCEPT ![p] = "done"]
  /\ UNCHANGED <<clock, requests, active, probe, started>>

\* lines 240-242: HTTP status 429
PrimaryRateLimited(p) ==
  /\ pc[p] = "primary"
  /\ call' = [call EXCEPT ![p].ret = Returned("rate_limited", RateLimitText)]
  /\ pc' = [pc EXCEPT ![p] = "done"]
  /\ UNCHANGED <<llm_cache, clock, requests, active, probe, started>>

\* lines 240-262: any other HTTP status error; a second request is made
PrimaryHttpError(p) ==
  /\ pc[p] = "primary"
  /\ pc' = [pc EXCEPT ![p] = "fallback_http"]
  /\ UNCHANGED <<llm_cache, clock, call, requests, active, probe, started>>

\* lines 278-291: any other exception; a second request is made
PrimaryOtherError(p) ==
  /\ pc[p] = "primary"
  /\ pc' = [pc EXCEPT ![p] = "fallback_other"]
  /\ UNCHANGED <<llm_cache, clock, call, requests, active, probe, started>>

FallbackOkStoring(p, text) ==
  /\ pc[p] \in {"fallback_http", "fallback_other"}
  /\ llm_cache' = (call[p].cache_key :> <<call[p].now, text>>) @@ llm_cache
  /\ call' = [call EXCEPT ![p].ret = Returned("fallback", text)]
  /\ pc' = [pc EXCEPT ![p] = "done"]
  /\ UNCHANGED <<clock, requests, active, probe, started>>
\* lines 272-274 and 301-303: the second request succeeded; its text is
\* returned and nothing is stored. In the HTTPStatusError handler the
\* request goes through the client whose async-with block has been left;
\* what the library does with it is not fixed by this program, so both
\* outcomes (FallbackOk, FallbackFail) are possible there too
FallbackOk(p, text) ==
  /\ pc[p] \in {"fallback_http", "fallback_other"}
  /\ call' = [call EXCEPT ![p].ret = Returned("fallback", text)]
  /\ pc' = [pc EXCEPT ![p] = "done"]
  /\ UNCHANGED <<llm_cache, clock, requests, active, probe, started>>

\* lines 275-277 and 304-306: the second request failed too
FallbackFail(p) ==
  /\ pc[p] \in {"fallback_http", "fallback_other"}
  /\ call' = [call EXCEPT ![p].ret =
       Returned("apology", IF pc[p] = "fallback_http" THEN ApologyAccess ELSE ApologyTrouble)]
  /\ pc' = [pc EXCEPT ![p] = "done"]
  /\ UNCHANGED <<llm_cache, clock, requests, active, probe, started>>

\* the caller receives the result (or the exception) and may call again
Return(p) ==
  /\ pc[p] = "done"
  /\ pc' = [pc EXCEPT ![p] = "idle"]
  /\ call' = [call EXCEPT ![p] = NoCall]
  /\ UNCHANGED <<llm_cache, clock, requests, active, probe, started>>

\* time.time() moves on
Tick ==
  /\ clock + TickStep <= MaxTicks * TickStep
  /\ clock' = clock + TickStep
  /\ UNCHANGED <<llm_cache, pc, call, requests, active, probe, started>>

Next ==
  \/ \E p \in Procs, req \in requests : CacheHit(p, req)
  \/ \E p \in Procs, req \in requests : Start(p, req)
  \/ \E p \in Procs, llm_response \in Responses : PrimaryOk(p, llm_response)
  \/ \E p \in Procs : PrimaryRateLimited(p)
  \/ \E p \in Procs : PrimaryHttpError(p)
  \/ \E p \in Procs : PrimaryOtherError(p)
  \/ \E p \in Procs, text \in Responses : FallbackOk(p, text)
  \/ \E p \in Procs : FallbackFail(p)
  \/ \E p \in Procs : Return(p)
  \/ Tick

Spec == Init /\ [][Next]_vars
SpecShared == InitShared /\ [][Next]_vars

\* ------------------------------------------------------------------------
\* Single calls of the helpers: the prioritizers, _summarize_context_data on
\* a bundle of one category, the chunked processors and the per-category
\* summarizers, each on a list of n records laid out by a pattern
\* ------------------------------------------------------------------------
MaxSpare == 3
ExampleSize == 250
ProbeMentions == {<<JStr("Pat Mahomes")>>, <<JStr("Jo Mahomes")>>, <<JStr("Zed"), JStr("Pat")>>}
Patterns == {"none", "all", "last", "tail", "even", "junk", "nameless"}
ChunkSizeOf == [flat |-> FlatChunkSize, ros |-> RosChunkSize, draft |-> DraftChunkSize]
ProbeSizes ==
  (0..MaxSpare)
    \cup {c + d : c \in {RosCap, ListCap}, d \in (-1)..MaxSpare}
    \cup {k * c + d : c \in {DraftChunkSize, RosChunkSize, FlatChunkSize}, k \in 1..2, d \in 0..1}
    \cup {ExampleSize}

\* the i-th of n records: a record the mentions match, a record they do
\* not, an element that is not a mapping, or a mapping whose name is null
Kind(pattern, n, i) ==
  CASE pattern = "none" -> "other"
    [] pattern = "all" -> "mentioned"
    [] pattern = "last" -> IF i = n THEN "mentioned" ELSE "other"
    [] pattern = "tail" -> IF i > n - 2 THEN "other" ELSE "mentioned"
    [] pattern = "even" -> IF i % 2 = 0 THEN "mentioned" ELSE "other"
    [] pattern = "junk" ->
         IF i % 25 \in {0, 1} THEN "junk" ELSE IF i = n THEN "mentioned" ELSE "other"
    [] pattern = "nameless" ->
         IF i = 2 THEN "nameless" ELSE IF i = n THEN "mentioned" ELSE "other"
Record(i, kind) ==
  CASE kind = "mentioned" -> Player(JStr("Pat Mahomes " \o ToString(i)), JStr("KC"))
    [] kind = "other" -> Player(JStr("Josh Allen " \o ToString(i)), JStr("BUF"))
    [] kind = "junk" -> JInt(i)
    [] kind = "nameless" -> Nameless(JStr("T" \o ToString(i)))
Records(n, pattern) == [i \in 1..n |-> Record(i, Kind(pattern, n, i))]

\* the raw value a category holds: the list itself, the list under a
\* position, the rest-of-season and draft shape, a standings or an injury
\* report whose teams (players) are the records, the draft shape with
\* all_players under a position, a scalar, or the list
\* wrapped under the inner key named by shape
Wrapped(shape, records) ==
  CASE shape = "list" -> JList(records)
    [] shape = "positions" -> JDict(<<KV("QB", JList(records))>>)
    [] shape = "projections" -> Standard(records)
    [] shape = "standings" ->
         JDict(<<KV("season", JDict(<<KV("year", JInt(2025))>>)),
                 KV("conferences", JList(<<JDict(<<KV("name", JStr("AFC")),
                   KV("divisions", JList(<<JDict(<<KV("name", JStr("West")),
                     KV("teams", JList(records))>>)>>))>>)>>))>>)
    [] shape = "injuries" ->
         JDict(<<KV("week", JInt(3)),
                 KV("teams", JList(<<JDict(<<KV("name", JStr("Chiefs")),
                                             KV("players", JList(records))>>)>>))>>)
    [] shape = "draft" ->
         JDict(<<KV("season", JInt(2025)),
                 KV("positions", JDict(<<KV("QB", JDict(<<
                    KV("count", JInt(Len(records))),
                    KV("all_players", JList(records))>>))>>))>>)
    [] shape = "scalar" -> JInt(Len(records))
    [] OTHER -> JDict(<<KV(shape, JList(records))>>)
InnerKeys == {"players", "data", "rankings"}
Shapes == {"list", "positions", "projections", "standings", "injuries", "scalar"} \cup InnerKeys

Summarizers == {"standings", "rankings", "ros", "draft", "injuries"}
Summarize(summarizer, data) ==
  CASE summarizer = "standings" -> SummarizeStandingsData(data)
    [] summarizer = "rankings" -> SummarizeFantasyRankings(data)
    [] summarizer = "ros" -> SummarizeRosProjections(data)
    [] summarizer = "draft" -> SummarizeDraftProjections(data)
    [] summarizer = "injuries" -> SummarizeInjuryData(data)
\* where the summary of (summarizer, shape) lists the records, for the
\* shapes the summarizer is written for
ResultPath(summarizer, shape) ==
  CASE summarizer = "standings" /\ shape = "standings" -> <<"conferences", "divisions", "teams">>
    [] summarizer = "rankings" /\ shape = "list" -> <<>>
    [] summarizer = "rankings" /\ shape = "positions" -> <<"QB">>
    [] summarizer = "rankings" /\ shape = "players" -> <<"players_sample">>
    [] summarizer = "ros" /\ shape = "projections" -> <<"QB">>
    [] summarizer = "draft" /\ shape = "projections" -> <<"positions", "QB", "all_players">>
    [] summarizer = "injuries" /\ shape = "injuries" -> <<"teams_with_injuries", "injuries">>
    [] OTHER -> <<"-">>

InitCalls ==
  /\ InitCommon
  /\ requests = {}
  /\ active = {}
  /\ probe \in {[NoProbe EXCEPT !.op = "input", !.n = n, !.pattern = pattern,
                                !.mentions = mentions] :
                  n \in ProbeSizes, pattern \in Patterns, mentions \in ProbeMentions}

Returns(op, target, shape, out) ==
  /\ probe' = [probe EXCEPT !.op = op, !.target = target, !.shape = shape, !.out = out]
  /\ UNCHANGED <<llm_cache, clock, pc, call, requests, active, started>>
\* a prioritizer call: it builds new lists and writes to a shallow copy of
\* the mapping passed in, so the object passed in holds after the call what
\* it held before
Called(op, target, shape, arg, out) ==
  /\ probe' = [probe EXCEPT !.op = op, !.target = target, !.shape = shape,
                            !.arg = arg, !.out = out]
  /\ UNCHANGED <<llm_cache, clock, pc, call, requests, active, started>>
\* the inputs on which the calls that do not look at the mentions, or look
\* at them in one way only, are made
Plain == probe.op = "input" /\ probe.mentions = <<JStr("Pat Mahomes")>>

CallPrioritizePlayersInList ==
  /\ probe.op = "input" /\ probe.n <= ListCap + MaxSpare
  /\ \E players_list \in {JList(Records(probe.n, probe.pattern))} :
       Called("prioritize", "list", "list", players_list,
              PrioritizePlayersInList(players_list, probe.mentions))
CallPrioritizeMentionedPlayersInRos ==
  /\ probe.op = "input" /\ probe.n <= ListCap + MaxSpare
  /\ \E ros_data \in {JDict(<<KV("season", JInt(2025)),
                              KV("QB", JList(Records(probe.n, probe.pattern)))>>)} :
       Called("prioritize", "ros", "positions", ros_data,
              PrioritizeMentionedPlayersInRos(ros_data, probe.mentions))
CallPrioritizeMentionedPlayersInDraftProjections(position) ==
  /\ probe.op = "input" /\ probe.n <= ListCap + MaxSpare
  /\ \E draft_data \in {JDict(<<KV("season", JInt(2025)),
                         KV("positions", JDict(<<KV(position, JDict(<<
                            KV("count", JInt(probe.n)),
                            KV("all_players", JList(Records(probe.n, probe.pattern)))>>))>>))>>)} :
       Called("prioritize", "draft", position, draft_data,
              PrioritizeMentionedPlayersInDraftProjections(draft_data, probe.mentions))
\* the rankings prioritizer on a list, on a mapping keyed by position and on
\* a mapping holding the list under players, players_sample or data
RankingsShapes == {"list", "positions", "players", "players_sample", "data"}
CallPrioritizeMentionedPlayersInFantasyRankings(shape) ==
  /\ probe.op = "input" /\ probe.n <= ListCap + MaxSpare
  /\ \E rankings_data \in {Wrapped(shape, Records(probe.n, probe.pattern))} :
       Called("prioritize_nested", "rankings", shape, rankings_data,
              PrioritizeMentionedPlayersInFantasyRankings(rankings_data, probe.mentions))
\* the standings prioritizer on one division whose teams are the records
CallPrioritizeMentionedTeamsInStandings ==
  /\ probe.op = "input" /\ probe.n <= ListCap + MaxSpare
  /\ \E standings_data \in {Wrapped("standings", Records(probe.n, probe.pattern))} :
       Called("prioritize_nested", "standings", "standings", standings_data,
              PrioritizeMentionedTeamsInStandings(standings_data, probe.mentions))
CallSummarizeContextData(category, shape) ==
  /\ Plain /\ probe.n \in {MaxSpare, ListCap + MaxSpare, FlatChunkSize, ExampleSize}
  /\ Returns("compact", category, shape,
             SummarizeContextData(
               JDict(<<KV(category, Wrapped(shape, Records(probe.n, probe.pattern)))>>),
               probe.mentions, <<>>))
CallChunked(kind) ==
  /\ Plain /\ probe.n > ChunkSizeOf[kind]
  /\ Returns("chunked", kind, "list",
             CASE kind = "flat" ->
                    ProcessLargePlayerListChunked(Records(probe.n, probe.pattern))
               [] kind = "ros" ->
                    ProcessLargePlayerListChunkedRos(Records(probe.n, probe.pattern), "QB")
               [] kind = "draft" ->
                    ProcessLargePlayerListChunkedDraftProjections(
                      Records(probe.n, probe.pattern), "QB"))
CallSummarizer(summarizer, shape) ==
  /\ Plain /\ probe.n <= MaxSpare
  /\ Returns("summarize", summarizer, shape,
             Summarize(summarizer, Wrapped(shape, Records(probe.n, probe.pattern))))

\* a bundle of several categories: the probed category in the given shape
\* between two ranking lists, adp (summarized before draft_projections) and
\* idp_weekly (summarized last), with a key that is no category
Bundle(category, shape, records) ==
  JDict(<<KV("query_type", JStr(category)),
          KV("metadata", JDict(<<KV("season", JInt(2025))>>)),
          KV("idp_weekly", JList(records)),
          KV("unknown_category", JList(records)),
          KV(category, Wrapped(shape, records)),
          KV("adp", JList(records))>>)
BundleCategories == {"standings", "draft_rankings", "ros_projections", "draft_projections"}
BundleShapes == {"list", "positions", "projections", "draft", "standings", "players", "scalar"}
CallSummarizeBundle(category, shape) ==
  /\ probe.op = "input" /\ probe.n \in 1..MaxSpare
  /\ Returns("bundle", category, shape,
             SummarizeContextData(Bundle(category, shape, Records(probe.n, probe.pattern)),
                                  probe.mentions, <<>>))

\* the compactor on the same bundle with the mentions of a query that names
\* two players, in one of the orders in which list(set(...)) can return them
TwoMentions == {"Josh Allen", "Pat Mahomes"}
CallSummarizeReordered(category, shape) ==
  /\ Plain /\ probe.n \in 1..MaxSpare
  /\ \E order \in Orderings(TwoMentions) :
       probe' = [probe EXCEPT
                  !.op = "reordered", !.target = category, !.shape = shape,
                  !.mentions = AsStrList(order),
                  !.out = SummarizeContextData(
                            Bundle(category, shape, Records(probe.n, probe.pattern)),
                            AsStrList(order), <<>>)]
  /\ UNCHANGED <<llm_cache, clock, pc, call, requests, active, started>>

\* a summarizer on data sectioned by position: rankings keyed by position,
\* or projections holding the positions under projections
Sectioned(summarizer, position, records) ==
  IF summarizer = "rankings" THEN JDict(<<KV(position, JList(records))>>)
  ELSE JDict(<<KV("season", JInt(2025)),
               KV("projections", JDict(<<KV(position, JList(records))>>))>>)
CallSummarizeSectioned(summarizer, position) ==
  /\ Plain /\ probe.n <= ListCap + MaxSpare
  /\ Returns("sectioned", summarizer, position,
             Summarize(summarizer, Sectioned(summarizer, position,
                                             Records(probe.n, probe.pattern))))

NextCalls ==
  \/ CallPrioritizePlayersInList
  \/ CallPrioritizeMentionedPlayersInRos
  \/ \E position \in {"QB", "K"} : CallPrioritizeMentionedPlayersInDraftProjections(position)
  \/ \E category \in {"draft_rankings", "weekly_rankings", "ros_projections"},
        shape \in {"list", "positions", "projections"} \cup InnerKeys :
       CallSummarizeContextData(category, shape)
  \/ \E kind \in DOMAIN ChunkSizeOf : CallChunked(kind)
  \/ \E summarizer \in Summarizers, shape \in Shapes : CallSummarizer(summarizer, shape)
  \/ \E category \in BundleCategories, shape \in BundleShapes :
       CallSummarizeBundle(category, shape)
  \/ \E category \in BundleCategories, shape \in BundleShapes :
       CallSummarizeReordered(category, shape)
  \/ \E summarizer \in {"rankings", "ros"}, position \in {"QB", "RB"} :
       CallSummarizeSectioned(summarizer, position)
  \/ \E shape \in RankingsShapes : CallPrioritizeMentionedPlayersInFantasyRankings(shape)
  \/ CallPrioritizeMentionedTeamsInStandings

SpecCalls == InitCalls /\ [][NextCalls]_vars

\* ------------------------------------------------------------------------
\* Properties
\* ------------------------------------------------------------------------
InFlight(p) == pc[p] # "idle" /\ ~call[p].hit
\* the call ran budget enforcement (the bundle was non-empty)
Enforced(p) == InFlight(p) /\ "budget" \in call[p].ran
\* budget enforcement ran to its end and left a payload
Sent(p) == Enforced(p) /\ call[p].prep.has_context
OverBudget(p) == TextLen(call[p].prep.budget.full) > max_context_size
Keys(d) == [i \in 1..Len(d.kv) |-> d.kv[i].k]
SummaryQueryType(p) == Get(call[p].prep.summarized_data, "query_type", JStr(""))
\* the summary holds the category its query_type names
QueryTypeMatches(p) ==
  /\ IsStr(SummaryQueryType(p))
  /\ SummaryQueryType(p).s \notin {"query_type", "metadata"}
  /\ HasKey(call[p].prep.summarized_data, SummaryQueryType(p).s)
\* a category with the mentioned records moved to the front
Prioritized(category, value, mentioned_players, mentioned_teams) ==
  IF category = "standings"
    THEN (IF Len(mentioned_teams) > 0
            THEN PrioritizeMentionedTeamsInStandings(value, mentioned_teams) ELSE value)
  ELSE IF Len(mentioned_players) = 0 THEN value
  ELSE CASE category = "ros_projections" ->
              PrioritizeMentionedPlayersInRos(value, mentioned_players)
         [] category = "draft_projections" ->
              PrioritizeMentionedPlayersInDraftProjections(value, mentioned_players)
         [] OTHER -> PrioritizeMentionedPlayersInFantasyRankings(value, mentioned_players)
\* the reduced summary that keeps the one category given
ReducedTo(p, category) ==
  /\ Keys(call[p].prep.budget.essential_data) = <<"query_type", "metadata", category>>
  /\ Item(call[p].prep.budget.essential_data, category)
       = Prioritized(category, Item(call[p].prep.summarized_data, category),
                     call[p].mentioned_players, call[p].mentioned_teams)

\* C1: the payload left by budget enforcement is never longer than the
\* budget of 50,000 characters, hard truncation included.
C1_PayloadWithinBudget ==
  \A p \in Procs : Sent(p) => TextLen(call[p].prep.context_str) <= max_context_size

\* C2: _summarize_context_data returns a value and never raises, whatever
\* the shapes of the categories and the mention lists.
C2_CompactionReturns ==
  \A p \in Procs :
    (InFlight(p) /\ "compaction" \in call[p].ran) => ~IsRaise(call[p].prep.summarized_data)
\* a call whose compaction met an exception inside a category and returned
\* the whole-bundle fallback object
C2_Witness ==
  \E p \in Procs :
    /\ InFlight(p) /\ "compaction" \in call[p].ran
    /\ IsDict(call[p].prep.summarized_data)
    /\ HasKey(call[p].prep.summarized_data, "error")

\* C3: no exception raised during extraction, compaction or budget
\* enforcement reaches the caller of generate_response.
C3_NoExceptionReachesCaller ==
  \A p \in Procs : pc[p] = "done" => call[p].ret.kind # "raise"

\* C4: when the summary exceeds the budget and holds the category named by
\* its query_type, the reduced summary holds only query_type, metadata and
\* that category, with the mentioned records prioritized inside it.
C4_QueryTypeReduction ==
  \A p \in Procs :
    (Sent(p) /\ OverBudget(p) /\ QueryTypeMatches(p)) => ReducedTo(p, SummaryQueryType(p).s)

\* C5: when the summary exceeds the budget and no category matches
\* query_type, the reduced summary holds the first category present from
\* the priority list, prioritized for the mentioned players (or, for
\* standings, the mentioned teams).
C5_PriorityListFallback ==
  \A p \in Procs :
    (Sent(p) /\ OverBudget(p) /\ ~QueryTypeMatches(p)
       /\ HasFallbackKey(call[p].prep.summarized_data))
      => ReducedTo(p, FirstFallbackKey(call[p].prep.summarized_data))

\* C6: when the reduced serialization still exceeds the budget the payload
\* is its first 50,000 characters followed by the marker; on every other
\* path no marker is appended.
C6_TruncationMarker ==
  \A p \in Procs :
    Sent(p) =>
      IF OverBudget(p) /\ TextLen(call[p].prep.budget.reduced) > max_context_size
        THEN call[p].prep.context_str =
               [of |-> call[p].prep.budget.essential_data, prefix |-> max_context_size,
                suffix |-> TruncationMarker]
        ELSE call[p].prep.context_str.suffix = ""
C6_Witness ==
  \E p \in Procs :
    /\ Sent(p) /\ OverBudget(p)
    /\ TextLen(call[p].prep.budget.reduced) > max_context_size
    /\ call[p].prep.context_str.suffix = TruncationMarker

\* the arms of the chain that precede the priority-list fallback
EarlierArmApplies(p) ==
  LET summary == call[p].prep.summarized_data IN
  \/ SummaryQueryType(p) = JStr("ros_projections") /\ HasKey(summary, "ros_projections")
  \/ SummaryQueryType(p) = JStr("draft_projections") /\ HasKey(summary, "draft_projections")
  \/ /\ HasKey(summary, "draft_rankings")
     /\ IsContainer(Item(summary, "draft_rankings"))
     /\ In("players_sample", Item(summary, "draft_rankings"))
\* the serialization of the query-type reduction is longer than the budget
QueryTypeReductionExceeds(p) ==
  /\ QueryTypeMatches(p)
  /\ JsonLen(JDict(<<
       KV("query_type", SummaryQueryType(p)),
       KV("metadata", JDict(<<KV("note", JStr(MetadataNote))>>)),
       KV(SummaryQueryType(p).s,
          Item(call[p].prep.summarized_data, SummaryQueryType(p).s))>>)) > max_context_size

Enters(p) == pc[p] = "idle" /\ pc'[p] # "idle"

\* C8: a request whose key holds an entry stored less than 600 seconds
\* before returns the stored response; once 600 seconds have passed since
\* the stored creation time the request is a miss and regenerates.
C8_HitBeforeTTL ==
  [][\A p \in Procs :
       (Enters(p) /\ call'[p].cache_key \in DOMAIN llm_cache) =>
         LET entry == llm_cache[call'[p].cache_key] IN
         IF clock - entry[1] < LLM_CACHE_TTL
           THEN call'[p].hit /\ pc'[p] = "done"
                  /\ call'[p].ret = Returned("cached", entry[2])
           ELSE ~call'[p].hit /\ "extraction" \in call'[p].ran]_vars
\* a request made exactly 600 seconds after the creation time of the entry
\* under its key was a miss
C8_Witness ==
  \E p \in Procs :
    /\ InFlight(p) /\ call[p].seen # <<>>
    /\ call[p].now - call[p].seen[1] = LLM_CACHE_TTL
    /\ "extraction" \in call[p].ran

\* C9: the cache changes only in a step in which the primary request
\* succeeds; the rate-limit reply, the fallback answers, the apologies and
\* failed requests leave it unchanged.
C9_StoredOnlyOnPrimarySuccess ==
  [][llm_cache' # llm_cache =>
       \E p \in Procs :
         /\ pc[p] = "primary" /\ pc'[p] = "done"
         /\ call'[p].ret.kind = "primary"
         /\ llm_cache' = (call[p].cache_key :> <<call[p].now, call'[p].ret.text>>) @@ llm_cache]_vars
\* a call answered by the fallback request while nothing is stored under
\* its key
C9_Witness ==
  \E p \in Procs :
    /\ pc[p] = "done" /\ call[p].ret.kind = "fallback"
    /\ call[p].cache_key \notin DOMAIN llm_cache

\* C10: a request whose key holds an unexpired entry returns the cached
\* text without running extraction, compaction, budget enforcement or a
\* transport call, and leaves the entry unchanged.
C10_HitShortCircuits ==
  [][\A p \in Procs :
       (Enters(p) /\ call'[p].cache_key \in DOMAIN llm_cache
          /\ clock - llm_cache[call'[p].cache_key][1] < LLM_CACHE_TTL) =>
         /\ call'[p].ret.text = llm_cache[call'[p].cache_key][2]
         /\ call'[p].ran = {} /\ call'[p].prep = Null
         /\ pc'[p] = "done"
         /\ llm_cache' = llm_cache]_vars
\* a hit made after the entry's creation time, the entry still as stored
C10_Witness ==
  \E p \in Procs :
    /\ pc[p] = "done" /\ call[p].hit
    /\ call[p].now > call[p].seen[1]
    /\ llm_cache[call[p].cache_key] = call[p].seen

\* C11: the set of keys of the cache never shrinks: a request that reads an
\* expired entry is a miss and leaves the store as it is, and an entry
\* changes only when a successful generation for its own key overwrites it.
C11_KeysNeverShrink ==
  [][/\ DOMAIN llm_cache \subseteq DOMAIN llm_cache'
     /\ \A k \in DOMAIN llm_cache :
          llm_cache'[k] # llm_cache[k] =>
            \E p \in Procs : /\ pc[p] = "primary" /\ call[p].cache_key = k
                             /\ pc'[p] = "done" /\ call'[p].ret.kind = "primary"
     /\ \A p \in Procs : (Enters(p) /\ ~call'[p].hit) => llm_cache' = llm_cache]_vars
\* a call in flight that missed on an expired entry, the entry still stored
C11_Witness ==
  \E p \in Procs :
    /\ InFlight(p) /\ call[p].seen # <<>>
    /\ call[p].now - call[p].seen[1] >= LLM_CACHE_TTL
    /\ call[p].cache_key \in DOMAIN llm_cache
    /\ llm_cache[call[p].cache_key] = call[p].seen

\* C12: two calls with the same query and bundle may both miss and both
\* reach the transport; each successful one replaces the whole pair under
\* the key by its own (creation time, response), whatever was stored
\* before, and touches no other key: the entry is the pair written last.
C12_LastWriteWins ==
  [][\A p \in Procs :
       (pc[p] = "primary" /\ pc'[p] = "done" /\ call'[p].ret.kind = "primary") =>
         /\ DOMAIN llm_cache' = DOMAIN llm_cache \cup {call[p].cache_key}
         /\ llm_cache'[call[p].cache_key] = <<call[p].now, call'[p].ret.text>>
         /\ \A k \in DOMAIN llm_cache : k # call[p].cache_key => llm_cache'[k] = llm_cache[k]]_vars
\* both callers missed on the same key and both wrote; the entry is the
\* pair of one of them and differs from the pair of the other
C12_Witness ==
  /\ \A p \in Procs : pc[p] = "done" /\ call[p].ret.kind = "primary" /\ ~call[p].hit
  /\ call[1].cache_key = call[2].cache_key
  /\ call[1].ret.text # call[2].ret.text
  /\ \E p \in Procs : llm_cache[call[p].cache_key] = <<call[p].now, call[p].ret.text>>

\* ------------------------------------------------------------------------
\* Single calls: what the claims say of a result
\* ------------------------------------------------------------------------
\* the identity field of the record contains, lower-cased, a
\* whitespace-separated token of length > 2 of some mention
HasMention(rec, mentions) ==
  /\ IsDict(rec)
  /\ IsStr(ListName(rec))
  /\ \E m \in 1..Len(mentions) :
       \E token \in WordsIn(Split(Lower(mentions[m].s))) :
         Len(token) > 2 /\ IsSubstring(token, Lower(ListName(rec).s))
Flags(records, mentions) == [i \in 1..Len(records) |-> HasMention(records[i], mentions)]
\* the places of the input records at which the records of out are found
Places(out, records) ==
  [i \in 1..Len(out) |->
     IF \E k \in 1..Len(records) : records[k] = out[i]
       THEN CHOOSE k \in 1..Len(records) : records[k] = out[i]
       ELSE 0]
\* out lists matching records before the others, and each group in the
\* order given by places
MatchingFirst(flags, places) ==
  \A i, j \in 1..Len(flags) :
    i < j => /\ flags[j] => flags[i]
             /\ (flags[i] <=> flags[j]) => places[i] < places[j]

\* C13: for any record list and non-empty mention list,
\* _prioritize_players_in_list returns a list of records of the input in
\* which every record whose identity holds a token (length > 2) of a mention
\* precedes every record that holds none, each group in input order
C13_MentionedFirst ==
  (probe.op = "prioritize" /\ probe.target = "list") =>
    /\ IsList(probe.out)
    /\ \A records \in {Records(probe.n, probe.pattern)} :
         \A places \in {Places(probe.out.v, records)} :
           /\ \A i \in 1..Len(places) : places[i] > 0
           /\ MatchingFirst(Flags(probe.out.v, probe.mentions), places)
\* the same on the lists all of whose mappings carry a string identity
C13_StringIdentities ==
  (probe.op = "prioritize" /\ probe.target = "list" /\ probe.pattern = "nameless"
     /\ probe.n >= 2) \/ C13_MentionedFirst

\* the value found in x along the keys of path, looking into the first
\* element of a list on the way; Null when the path is not there
RECURSIVE At(_, _)
At(x, path) ==
  IF path = <<>> THEN x
  ELSE IF IsList(x) THEN (IF Len(x.v) > 0 THEN At(x.v[1], path) ELSE Null)
  ELSE IF IsDict(x) /\ HasKey(x, Head(path)) THEN At(Item(x, Head(path)), Tail(path))
  ELSE Null
Count(flags) == Cardinality({i \in 1..Len(flags) : flags[i]})

\* the list a prioritizer call returns for the probed position, and the cap
\* the claim names for it
PrioritizedList ==
  CASE probe.target = "list" -> probe.out
    [] probe.target = "ros" -> At(probe.out, <<"QB">>)
    [] probe.target = "draft" -> At(probe.out, <<"positions", probe.shape, "all_players">>)
    [] OTHER -> Null
CapOf == [list |-> ListCap, ros |-> RosCap, draft |-> DraftCapMentioned]
WithinCap(cap, m, flagsOut) ==
  /\ Count(flagsOut) = m
  /\ Len(flagsOut) - m <= Max(0, cap - m)
  /\ Len(flagsOut) <= Max(cap, m)

\* C14: each prioritizer keeps all m mentioned records and at most
\* max(0, cap - m) others, so the output is never longer than max(cap, m)
\* (cap 30 for a flat list and for a draft position, 15 for a
\* rest-of-season position)
C14_CapOnRemainder ==
  (probe.op = "prioritize" /\ probe.shape # "K") =>
    \A out \in {PrioritizedList} :
      /\ IsList(out)
      /\ WithinCap(CapOf[probe.target],
                   Count(Flags(Records(probe.n, probe.pattern), probe.mentions)),
                   Flags(out.v, probe.mentions))
\* the same on the calls in which the mentioned records do not outnumber
\* the cap and every mapping carries a string identity
C14_UpToCap ==
  (probe.op = "prioritize" /\ probe.shape # "K"
     /\ ~(probe.pattern = "nameless" /\ probe.n >= 2)
     /\ Count(Flags(Records(probe.n, probe.pattern), probe.mentions)) <= CapOf[probe.target])
    => C14_CapOnRemainder

\* the identity fields of all the mappings inside a value
RECURSIVE NamesIn(_)
NamesIn(x) ==
  IF IsList(x) THEN UNION {NamesIn(x.v[i]) : i \in 1..Len(x.v)}
  ELSE IF IsDict(x)
    THEN (IF HasKey(x, "name") THEN {Item(x, "name")} ELSE {})
           \cup UNION {NamesIn(x.kv[i].v) : i \in 1..Len(x.kv)}
  ELSE {}
MentionedNames(records, mentions) ==
  {Item(records[i], "name") : i \in {k \in 1..Len(records) : HasMention(records[k], mentions)}}
CategoryChunk ==
  [draft_rankings |-> FlatChunkSize, weekly_rankings |-> FlatChunkSize,
   ros_projections |-> RosChunkSize]

\* C15: a record whose identity holds a mention token, anywhere in a raw
\* list of at most the chunk size given as a flat list, under a position or
\* under an inner key, is present in the category's output of the summary
C15_MentionPreserved ==
  (probe.op = "compact" /\ probe.shape \in {"list", "positions"} \cup InnerKeys
     /\ probe.n <= CategoryChunk[probe.target]) =>
    MentionedNames(Records(probe.n, probe.pattern), probe.mentions)
      \subseteq NamesIn(At(probe.out, <<probe.target>>))

\* the records a compacted rankings category lists: the list itself or the
\* list under players_sample
OutputRecords(x) ==
  IF IsList(x) THEN x.v
  ELSE IF IsList(At(x, <<"players_sample">>)) /\ IsDict(x) THEN At(x, <<"players_sample">>).v
  ELSE <<>>
MatchesLead(flags) ==
  /\ \E i \in 1..Len(flags) : flags[i]
  /\ \A i, j \in 1..Len(flags) : (i < j /\ flags[j]) => flags[i]

\* C16: draft_rankings given as a mapping that wraps the player list under
\* an inner key, a mention matching at least one record: the compacted
\* category lists the matching records before all the others and holds at
\* most 30 records
C16_WrappedDraftRankings ==
  (probe.op = "compact" /\ probe.target = "draft_rankings" /\ probe.shape \in InnerKeys
     /\ MentionedNames(Records(probe.n, probe.pattern), probe.mentions) # {}) =>
    \A flags \in {Flags(OutputRecords(At(probe.out, <<probe.target>>)), probe.mentions)} :
      MatchesLead(flags) /\ Len(flags) <= ListCap

\* the identity fields of the mappings of a list, in order
NamesOf(records) ==
  LET sel == SelectSeq(records, IsDict)
  IN [i \in 1..Len(sel) |-> Get(sel[i], "name", Null)]

\* C17: for a flat list longer than the chunk size each chunked processor
\* returns exactly one summarized record for every mapping of the input,
\* in input order, nothing dropped or duplicated at a chunk boundary
C17_ChunkedCoverage ==
  (probe.op = "chunked") =>
    /\ IsList(probe.out)
    /\ \A i \in 1..Len(probe.out.v) : IsDict(probe.out.v[i])
    /\ NamesOf(probe.out.v) = NamesOf(Records(probe.n, probe.pattern))

\* the chunks (numbered from 0) holding a record whose summarization fails
\* in the processor of that kind: the rest-of-season processor lower-cases
\* the name of every mapping, the other two only copy it
FailingChunks(kind, records) ==
  {(i - 1) \div ChunkSizeOf[kind] :
     i \in {k \in 1..Len(records) :
              kind = "ros" /\ IsDict(records[k]) /\ ~IsStr(PlainName(records[k]))}}

\* C18: in chunked processing a failure on a record of one chunk does not
\* abort the other chunks: the records of every other chunk still appear
\* in the returned list
C18_OtherChunksSurvive ==
  (probe.op = "chunked") =>
    \A records \in {Records(probe.n, probe.pattern)} :
      \A failing \in {FailingChunks(probe.target, records)} :
        \A names \in {NamesIn(probe.out)} :
          \A i \in 1..probe.n :
            (IsDict(records[i]) /\ (i - 1) \div ChunkSizeOf[probe.target] \notin failing)
              => PlainName(records[i]) \in names

\* C19: every per-category summarizer, called on its own with input of any
\* shape (a list for a mapping or the reverse, a scalar, a container with
\* elements that are not mappings), returns a value and never raises
C19_SummarizersNeverRaise ==
  (probe.op = "summarize") => ~IsRaise(probe.out)

\* the entries a summary lists at a path, none when the path is not there
EntriesAt(out, path) == IF IsList(At(out, path)) THEN At(out, path).v ELSE <<>>

\* C20: in every summarizer an element of a list that is not a mapping is
\* skipped silently: the summary lists one entry for every mapping of the
\* list, in order, and no placeholder or error entry
C20_NonMappingsSkipped ==
  (probe.op = "summarize" /\ ResultPath(probe.target, probe.shape) # <<"-">>) =>
    \A entries \in {EntriesAt(probe.out, ResultPath(probe.target, probe.shape))} :
      /\ \A i \in 1..Len(entries) : IsDict(entries[i]) /\ ~HasKey(entries[i], "error")
      /\ NamesOf(entries) = NamesOf(Records(probe.n, probe.pattern))

\* ------------------------------------------------------------------------
\* Single calls of the compactor on a bundle of several categories
\* ------------------------------------------------------------------------
StepOfCategory(category) ==
  ModelledSteps[CHOOSE i \in 1..Len(ModelledSteps) : ModelledSteps[i].key = category]
\* what the step of the probed category yields on its own: the value it
\* stores, or the exception that leaves it
OwnOutcome ==
  StepValue(StepOfCategory(probe.target),
            Wrapped(probe.shape, Records(probe.n, probe.pattern)), probe.mentions)
IsLocalFallback(v) == IsDict(v) /\ HasKey(v, "summary")
StepFailed(r) == IsRaise(r) \/ IsLocalFallback(r)
SiblingsSummarized(out) ==
  /\ IsDict(out)
  /\ \A k \in {"adp", "idp_weekly"} :
       HasKey(out, k) /\ IsList(Item(out, k))

\* C21: when the summarizer of one category fails during compaction, only
\* that category's entry is replaced, by a category-local fallback object
\* (filler text and the captured error text), and every other category of
\* the bundle is still summarized and appears in the summary
C21_CategoryLocalFallback ==
  (probe.op = "bundle") =>
    \A r \in {OwnOutcome} :
      StepFailed(r) =>
        /\ SiblingsSummarized(probe.out)
        /\ HasKey(probe.out, probe.target)
        /\ IsLocalFallback(Item(probe.out, probe.target))
        /\ HasKey(Item(probe.out, probe.target), "error")
\* the part of it that holds: a failure that the category's summarizer
\* catches itself leaves the other categories in the summary
C21_CaughtInside ==
  (probe.op = "bundle") =>
    \A r \in {OwnOutcome} :
      IsLocalFallback(r) =>
        /\ SiblingsSummarized(probe.out)
        /\ HasKey(probe.out, probe.target)
        /\ Item(probe.out, probe.target) = r

\* C22: when an exception escapes a step of _summarize_context_data the
\* value returned is one top-level fallback object holding the keys summary
\* and error only: no query_type, no metadata and none of the categories
\* summarized before the failure
C22_TopLevelFallback ==
  (probe.op = "bundle") =>
    \A r \in {OwnOutcome} :
      IsRaise(r) =>
        /\ IsDict(probe.out)
        /\ Keys(probe.out) = <<"summary", "error">>
        /\ Item(probe.out, "error") = JStr(r.msg)
\* the step of draft_projections raises after adp has been summarized
C22_Witness ==
  /\ probe.op = "bundle" /\ probe.target = "draft_projections"
  /\ IsRaise(OwnOutcome)
  /\ ~HasKey(probe.out, "adp") /\ ~HasKey(probe.out, "query_type")
  /\ HasKey(probe.out, "error")

LeadsList(flags) == \A i, j \in 1..Len(flags) : (i < j /\ flags[j]) => flags[i]
\* the player categories of the probed bundle whose value is a flat list
\* or a list under players
ListedCategories ==
  {"adp", "idp_weekly"}
    \cup (IF probe.target # "standings" /\ probe.shape \in {"list", "players"}
            THEN {probe.target} ELSE {})

\* C23: with a non-empty mention list the compactor applies the matching
\* prioritizer to every player category of the bundle (draft_rankings,
\* weekly_rankings, ros_projections, draft_projections and the other
\* ranking categories): in each such category's output list the records
\* matching a mention precede the others
C23_EveryPlayerCategoryPrioritized ==
  (probe.op = "bundle" /\ Len(probe.mentions) > 0) =>
    /\ IsDict(probe.out)
    /\ \A k \in ListedCategories :
         /\ HasKey(probe.out, k)
         /\ LeadsList(Flags(OutputRecords(Item(probe.out, k)), probe.mentions))

KeySet(d) == {d.kv[i].k : i \in 1..Len(d.kv)}
IsTopLevelFallback(out) == IsDict(out) /\ Keys(out) = <<"summary", "error">>

C25_OrderIndependent ==
  (probe.op = "reordered") =>
    \A order \in Orderings(TwoMentions) :
      SummarizeContextData(Bundle(probe.target, probe.shape,
                                  Records(probe.n, probe.pattern)),
                           AsStrList(order), <<>>) = probe.out
\* a list in which two records match different mentions has been
\* prioritized: both records lead the output, in input order
C25_Witness ==
  /\ probe.op = "reordered" /\ probe.target = "draft_rankings" /\ probe.shape = "list"
  /\ probe.mentions = <<JStr("Pat Mahomes"), JStr("Josh Allen")>>
  /\ probe.n = 3 /\ probe.pattern = "junk"
  /\ NamesOf(OutputRecords(Item(probe.out, "draft_rankings")))
       = <<JStr("Josh Allen 2"), JStr("Pat Mahomes 3")>>

\* C26: for data sectioned by position, rankings and projections alike, the
\* summarizer's output for a position holds at most 25 records for the
\* quarterback position and at most 15 for any other, whatever the length
\* of the input list
C26_PositionCaps ==
  (probe.op = "sectioned") =>
    Len(EntriesAt(probe.out, <<probe.shape>>))
      <= (IF probe.shape = "QB" THEN QBCap ELSE PositionCap)
\* the rankings branch: the summary it builds keeps to the caps, and the
\* function returns nothing
C26_RankingsBranch ==
  (probe.op = "sectioned" /\ probe.target = "rankings" /\ probe.n > 0) =>
    /\ probe.out = Null
    /\ \A built \in {PositionKeyedSummary(
                       Sectioned("rankings", probe.shape, Records(probe.n, probe.pattern)))} :
         Len(EntriesAt(built, <<probe.shape>>))
           = Min(probe.n, IF probe.shape = "QB" THEN QBCap ELSE PositionCap)

\* ------------------------------------------------------------------------
\* The mention list of a call of generate_response
\* ------------------------------------------------------------------------
CarriesTargetPlayer(context_data) ==
  /\ IsDict(context_data) /\ HasKey(context_data, "metadata")
  /\ IsDict(Item(context_data, "metadata"))
  /\ HasKey(Item(context_data, "metadata"), "target_player")

\* C27: when the bundle's metadata carries target_player, the mention list
\* that compaction and budget enforcement receive is exactly [target_player]
\* and holds nothing found in the query; the names found in the query are
\* the mention list only when target_player is absent
C27_TargetPlayerFirst ==
  \A p \in Procs : InFlight(p) =>
    IF CarriesTargetPlayer(call[p].context_data)
      THEN call[p].mentioned_players
             = <<Item(Item(call[p].context_data, "metadata"), "target_player")>>
      ELSE /\ {call[p].mentioned_players[i] : i \in DOMAIN call[p].mentioned_players}
                = {JStr(name) : name \in PlayerNameSet(call[p].query)}
           /\ Len(call[p].mentioned_players) = Cardinality(PlayerNameSet(call[p].query))
\* a query naming Pat Mahomes on a bundle whose target_player is Josh Allen:
\* the compacted weekly rankings keep Josh Allen first
C27_Witness ==
  \E p \in Procs :
    /\ InFlight(p) /\ call[p].query = "Pat Mahomes stats"
    /\ CarriesTargetPlayer(call[p].context_data)
    /\ call[p].mentioned_players = <<JStr("Josh Allen")>>
    /\ PlayerNameSet(call[p].query) # {}
    /\ IsDict(call[p].prep.summarized_data)
    /\ HasKey(call[p].prep.summarized_data, "weekly_rankings")
    /\ NamesOf(OutputRecords(Item(call[p].prep.summarized_data, "weekly_rankings")))
         = <<JStr("Josh Allen"), JStr("Pat Mahomes")>>

\* C28: in every interleaving of concurrent requests each write stores a
\* creation time not earlier than the one stored for the key: the creation
\* time recorded under a key never moves backwards
C28_CreationTimeNeverBackwards ==
  [][\A k \in DOMAIN llm_cache :
       k \in DOMAIN llm_cache' => llm_cache'[k][1] >= llm_cache[k][1]]_vars
\* what the store does keep: the creation time written is the time at
\* which the writing call read the clock, never a later one
C28_StoresRequestStart ==
  [][\A k \in DOMAIN llm_cache' :
       (k \notin DOMAIN llm_cache \/ llm_cache'[k] # llm_cache[k]) =>
         \E p \in Procs : /\ pc[p] = "primary" /\ pc'[p] = "done"
                          /\ call[p].cache_key = k
                          /\ llm_cache'[k][1] = call[p].now
                          /\ call[p].now <= clock]_vars

\* C29: when the serialized compacted summary is at most 50,000 characters
\* long, budget enforcement leaves it unchanged: the payload is exactly that
\* serialization, whole, with every category and the metadata of the
\* summary, and no marker is appended
C29_WithinBudgetUnchanged ==
  \A p \in Procs :
    (Enforced(p) /\ JsonLen(call[p].prep.summarized_data) <= max_context_size) =>
      /\ call[p].prep.has_context
      /\ call[p].prep.budget.branch = "none"
      /\ call[p].prep.context_str
           = [of |-> call[p].prep.summarized_data,
              prefix |-> JsonLen(call[p].prep.summarized_data), suffix |-> ""]
\* a summary within the budget that holds a category the over-budget block
\* would prioritize and a metadata it would replace, with a mention at hand
C29_Witness ==
  \E p \in Procs :
    /\ Enforced(p) /\ JsonLen(call[p].prep.summarized_data) <= max_context_size
    /\ Len(call[p].mentioned_players) > 0
    /\ HasKey(call[p].prep.summarized_data, "ros_projections")
    /\ HasKey(Item(call[p].prep.summarized_data, "metadata"), "target_player")
    /\ call[p].prep.context_str.of = call[p].prep.summarized_data
    /\ call[p].prep.context_str.suffix = ""

\* ------------------------------------------------------------------------
\* Single calls of the prioritizers: what they leave alone
\* ------------------------------------------------------------------------
\* the record list of the probed position in a value passed to, or returned
\* by, the prioritizer called
ListIn(x) ==
  CASE probe.target = "list" -> x
    [] probe.target = "ros" -> At(x, <<"QB">>)
    [] probe.target = "draft" -> At(x, <<"positions", probe.shape, "all_players">>)
    [] probe.target = "standings" -> At(x, <<"conferences", "divisions", "teams">>)
    [] probe.target = "rankings" ->
         IF probe.shape = "list" THEN x
         ELSE IF probe.shape = "positions" THEN At(x, <<"QB">>)
         ELSE At(x, <<probe.shape>>)
\* the value the probed call was given
Passed ==
  CASE probe.target = "list" -> JList(Records(probe.n, probe.pattern))
    [] probe.target = "ros" ->
         JDict(<<KV("season", JInt(2025)), KV("QB", JList(Records(probe.n, probe.pattern)))>>)
    [] probe.target = "draft" ->
         JDict(<<KV("season", JInt(2025)),
                 KV("positions", JDict(<<KV(probe.shape, JDict(<<
                    KV("count", JInt(probe.n)),
                    KV("all_players", JList(Records(probe.n, probe.pattern)))>>))>>))>>)
    [] OTHER -> Wrapped(probe.shape, Records(probe.n, probe.pattern))
Times(records, r) == Cardinality({i \in 1..Len(records) : records[i] = r})
\* every record of out is a record of records, as often at most
SelectedFrom(out, records) ==
  \A i \in 1..Len(out) : /\ Times(records, out[i]) > 0
                         /\ Times(out, out[i]) <= Times(records, out[i])

====
